---- MODULE Spec2Model ----
(***************************************************************************)
(* Model of dark::b_plus::tree (src/BPlusTree/bplus.h) and of the driver   *)
(* loop that feeds it (src/unnamed/part_000).                              *)
(*                                                                         *)
(* A visitor is modelled by the block index it refers to (0 = the root,    *)
(* held in __root_pair).  A node's entry array data[0..BLOCK_SIZE] is a    *)
(* function over the slots written so far; slots at or beyond count are    *)
(* dead and are dropped when a public operation returns.                   *)
(* A header is the record (index, inner, count); the node's own header     *)
(* (index = next node, inner = its kind, count) is kept in the node.       *)
(***************************************************************************)
EXTENDS Integers, Sequences, FiniteSets, TLC

(* -------------------------------- state -------------------------------- *)

VARIABLES
    node,           \* in-memory image of each block: root() and the cache over the file
    disk,           \* content of each block in the .dat file
    dirty,          \* blocks whose in-memory image is marked modified
    free,           \* free-block list of the file manager
    top,            \* next block index the file manager appends
    meta,           \* free list and top as persisted in the .bin file
    cache_pointer,  \* tree::cache_pointer
    alive,          \* the tree object exists (between constructor and destructor)
    ref,            \* reference set: pairs inserted and not erased since
    snap,           \* what find returned for each key at the last close, until the next command
    last,           \* the last step taken and the rebalancing it performed
    mode,           \* which input the driver is given
    unloading       \* the driver has reached the erase part of a scripted input
                    \* (the editing part of an "edit" input)

vars == << node, disk, dirty, free, top, meta, cache_pointer, alive, ref, snap, last, mode, unloading >>

(* ----------------------------- parameters ------------------------------ *)

\* Block size of the scaled-down tree: the smallest value with
\* MERGE_SIZE >= 2 and AMORT_SIZE - MERGE_SIZE >= 2.
ScaledBlock == 6

\* Block size of the tree the "edit" inputs are fed to: the smallest
\* multiple of 3 for which two different counts lie strictly between
\* MERGE_SIZE and AMORT_SIZE, as they do for every BLOCK_SIZE >= 10.
EditBlock == 9

EditModes == {"edit_thin", "edit_full"}

\* Template parameter BLOCK_SIZE (B).  The driver instantiates 101; the
\* model scales it down.
BLOCK_SIZE == IF mode \in EditModes THEN EditBlock ELSE ScaledBlock

AMORT_SIZE == (BLOCK_SIZE * 2) \div 3

MERGE_SIZE == BLOCK_SIZE \div 3

MAXN_SIZE == 1919810

\* Keys and values the driver may pass.
NumKeys == 6

NumVals == 8

\* Values per key of the pairs the driver passes in any order.
FreeVals == 4

\* Values per key the driver uses in "persist" mode.
PersistVals == 4

\* Number of pairs the driver uses in "stack" mode.
StackLen == 30

\* Number of pairs by which the stored set may differ from the loaded set in
\* the "edit" modes.
EditDist == 4

\* Values per key the driver uses in the "tall" modes.
TallVals == 20

Keys == 1..NumKeys

Vals == 1..NumVals

Pairs == [key : Keys, val : Vals]

(* ------------------------------- helpers ------------------------------- *)

\* Compare<T>: negative, zero or positive.
Compare(a, b) == IF a < b THEN -1 ELSE IF a > b THEN 1 ELSE 0

k_comp(a, b) == Compare(a, b)

\* v_comp with its arguments exchanged.
v_comp_reversed(a, b) == Compare(b, a)

v_comp(a, b) == Compare(a, b)

\* ~x on int.
Cpl(x) == -x - 1

ZeroHead == [index |-> 0, inner |-> TRUE, count |-> 0]

ZeroData == [i \in {} |-> 0]

\* A freshly zeroed slot.
ZeroNode == [index |-> 0, inner |-> TRUE, count |-> 0, data |-> ZeroData]

\* header{index, count} with the kind bit.
MkHead(i, inner, c) == [index |-> i, inner |-> inner, count |-> c]

\* The header a node derives from.
HeadOf(n) == [index |-> n.index, inner |-> n.inner, count |-> n.count]

\* memmove(dst + d0, src + s0, n * sizeof(tuple_t)).
mmove(dst, d0, src, s0, n) ==
    [i \in (DOMAIN dst) \cup (d0..(d0 + n - 1)) |->
        IF i \in d0..(d0 + n - 1) THEN src[s0 + (i - d0)] ELSE dst[i]]

\* data[x].v = v, data[x].head kept (a slot never written reads as zero).
SetV(d, x, v) ==
    [i \in (DOMAIN d) \cup {x} |->
        IF i = x THEN [head |-> (IF x \in DOMAIN d THEN d[x].head ELSE ZeroHead),
                       v |-> v]
        ELSE d[i]]

\* data[x].head = h, data[x].v kept.
SetHead(d, x, h) == [d EXCEPT ![x].head = h]

SetHeadCount(d, x, c) == [d EXCEPT ![x].head.count = c]

\* The live slots of a node.
Trunc(d, c) == [i \in 0..(c - 1) |-> d[i]]

(* ------------------------- navigation primitives ----------------------- *)

\* binary_search that never reports an identical pair.
RECURSIVE binary_search_no_exact(_, _, _, _, _)
binary_search_no_exact(data, key, val, l, r) ==
    IF l = r THEN l
    ELSE LET mid == (l + r) \div 2
             c1  == k_comp(key, data[mid].v.key)
             cmp == IF c1 = 0 THEN v_comp(val, data[mid].v.val) ELSE c1
         IN  IF cmp > 0 THEN binary_search_no_exact(data, key, val, mid + 1, r)
             ELSE binary_search_no_exact(data, key, val, l, mid)

RECURSIVE binary_search(_, _, _, _, _)
binary_search(data, key, val, l, r) ==
    IF l = r THEN l
    ELSE LET mid == (l + r) \div 2
             c1  == k_comp(key, data[mid].v.key)
             cmp == IF c1 = 0 THEN v_comp(val, data[mid].v.val) ELSE c1
         IN  IF cmp > 0 THEN binary_search(data, key, val, mid + 1, r)
             ELSE IF cmp < 0 THEN binary_search(data, key, val, l, mid)
             ELSE Cpl(mid)

\* lower_bound(data + off, key, l, r)
RECURSIVE lower_bound(_, _, _, _, _)
lower_bound(data, off, key, l, r) ==
    IF l = r THEN l
    ELSE LET mid == (l + r) \div 2
         IN  IF k_comp(key, data[off + mid].v.key) > 0
             THEN lower_bound(data, off, key, mid + 1, r)
             ELSE lower_bound(data, off, key, l, mid)

(* ------------------- block file and page cache (store) ----------------- *)
(* The store threaded through one public operation:                        *)
(*   node  : in-memory image of every block (root = block 0)              *)
(*   dirty : blocks whose slot is marked modified (0: root_state)          *)
(*   free  : the free-block list, top  : next block to append             *)
(*   cp    : cache_pointer,       ev   : rebalancing steps taken          *)

\* What a node image n says about its entry array data[BLOCK_SIZE + 1]:
\* the slack slot data[BLOCK_SIZE] is in use, the count exceeds the array,
\* or a slot beyond the array has been written.
Marks(n) ==
    (IF n.count = BLOCK_SIZE + 1 THEN {<< "slack" >>} ELSE {}) \cup
    (IF n.count > BLOCK_SIZE + 1 THEN {<< "overfull" >>} ELSE {}) \cup
    (IF \E j \in DOMAIN n.data : j > BLOCK_SIZE THEN {<< "overrun" >>} ELSE {})

Put(s, i, n) ==
    IF n.count <= BLOCK_SIZE /\ DOMAIN n.data \subseteq 0..BLOCK_SIZE
    THEN [s EXCEPT !.node[i] = n]
    ELSE [s EXCEPT !.node[i] = n, !.ev = @ \cup Marks(n)]

modify(s, i) == [s EXCEPT !.dirty = @ \cup {i}]

Note(s, e) == [s EXCEPT !.ev = @ \cup {e}]

\* Tag of a rebalancing step on children of the given kind.
Kind(e, inner) == << e, IF inner THEN "inner" ELSE "leaf" >>

\* Tag of a choice between the two siblings of child x of par that was made
\* with both of them eligible and their header counts equal.
TieNote(s, both, par, x, op, side) ==
    IF both /\ par.data[x - 1].head.count = par.data[x + 1].head.count
    THEN Note(s, << "tie", op, side >>)
    ELSE s

\* file.allocate(): pop the free list or append; zeroed, dirty slot.
allocate(s) ==
    LET fromFree == Len(s.free) > 0
        i == IF fromFree THEN s.free[Len(s.free)] ELSE s.top
    IN  [idx |-> i,
         s |-> [s EXCEPT !.free  = IF fromFree THEN SubSeq(@, 1, Len(@) - 1) ELSE @,
                         !.top   = IF fromFree THEN @ ELSE @ + 1,
                         !.node  = [j \in (DOMAIN @) \cup {i} |->
                                       IF j = i THEN ZeroNode ELSE @[j]],
                         !.dirty = @ \cup {i}]]

\* file.recycle(x.index()): slot detached without write-back, block freed.
recycle(s, i) ==
    [s EXCEPT !.free  = Append(@, i),
              !.node[i] = ZeroNode,
              !.dirty = @ \ {i}]

(* ---------------------------- tree: helpers ---------------------------- *)

\* A header reference (header &head): the root's own header (p = -1) or
\* entry x of node p.
RootRef == [p |-> -1, x |-> 0]

EntryRef(p, x) == [p |-> p, x |-> x]

rdHead(s, h) ==
    IF h.p = -1 THEN HeadOf(s.node[0]) ELSE s.node[h.p].data[h.x].head

\* head.count = c
wrHeadCount(s, h, c) ==
    IF h.p = -1 THEN Put(s, 0, [s.node[0] EXCEPT !.count = c])
    ELSE Put(s, h.p, [s.node[h.p] EXCEPT !.data = SetHeadCount(@, h.x, c)])

\* x ? file.get_object(x) : visitor{&__root_pair}
get_pointer(head) == head.index

insert_root(s, key, val) ==
    LET a  == allocate(s)
        p  == a.idx
        s1 == modify(a.s, 0)
        r  == [s1.node[0] EXCEPT
                 !.count = 1,
                 !.data  = [i \in (DOMAIN @) \cup {0} |->
                              IF i = 0
                              THEN [head |-> MkHead(p, FALSE, 1),
                                    v |-> [key |-> key, val |-> val]]
                              ELSE @[i]]]
        s2 == modify(Put(s1, 0, r), p)
        n  == [s2.node[p] EXCEPT
                 !.index = MAXN_SIZE,
                 !.inner = FALSE,
                 !.count = 1,
                 !.data  = SetV(@, 0, [key |-> key, val |-> val])]
    IN  Note(Put(s2, p, n), << "insert_root" >>)

\* split_root that rounds the second half down and loses the last entry.
split_root_drop_last(s) ==
    LET a1   == allocate(s)
        a2   == allocate(a1.s)
        prev == a1.idx
        next == a2.idx
        s0   == a2.s
        root == s0.node[0]
        pc   == root.count \div 2
        nc   == root.count \div 2
        pn   == [s0.node[prev] EXCEPT
                   !.index = next, !.inner = TRUE, !.count = pc,
                   !.data  = mmove(@, 0, root.data, 0, pc)]
        nn   == [s0.node[next] EXCEPT
                   !.index = MAXN_SIZE, !.inner = TRUE, !.count = nc,
                   !.data  = mmove(@, 0, root.data, pc, nc)]
        rd0  == SetHead(root.data, 0, MkHead(prev, TRUE, pc))
        rd1  == SetHead(rd0, 1, MkHead(next, TRUE, nc))
        rd2  == SetV(rd1, 1, nn.data[0].v)
        rn   == [root EXCEPT !.count = 2, !.data = rd2]
    IN  Note(Put(Put(Put(s0, prev, pn), next, nn), 0, rn), << "split_root" >>)

\* split_root that writes the headers of the two new nodes as headers of
\* leaves.
split_root_leaf_heads(s) ==
    LET a1   == allocate(s)
        a2   == allocate(a1.s)
        prev == a1.idx
        next == a2.idx
        s0   == a2.s
        root == s0.node[0]
        pc   == root.count \div 2
        nc   == (root.count + 1) \div 2
        pn   == [s0.node[prev] EXCEPT
                   !.index = next, !.inner = TRUE, !.count = pc,
                   !.data  = mmove(@, 0, root.data, 0, pc)]
        nn   == [s0.node[next] EXCEPT
                   !.index = MAXN_SIZE, !.inner = TRUE, !.count = nc,
                   !.data  = mmove(@, 0, root.data, pc, nc)]
        rd0  == SetHead(root.data, 0, MkHead(prev, FALSE, pc))
        rd1  == SetHead(rd0, 1, MkHead(next, FALSE, nc))
        rd2  == SetV(rd1, 1, nn.data[0].v)
        rn   == [root EXCEPT !.count = 2, !.data = rd2]
    IN  Note(Put(Put(Put(s0, prev, pn), next, nn), 0, rn), << "split_root" >>)

split_root(s) ==
    LET a1   == allocate(s)
        a2   == allocate(a1.s)
        prev == a1.idx
        next == a2.idx
        s0   == a2.s
        root == s0.node[0]
        pc   == root.count \div 2
        nc   == (root.count + 1) \div 2
        pn   == [s0.node[prev] EXCEPT
                   !.index = next, !.inner = TRUE, !.count = pc,
                   !.data  = mmove(@, 0, root.data, 0, pc)]
        nn   == [s0.node[next] EXCEPT
                   !.index = MAXN_SIZE, !.inner = TRUE, !.count = nc,
                   !.data  = mmove(@, 0, root.data, pc, nc)]
        rd0  == SetHead(root.data, 0, MkHead(prev, TRUE, pc))
        rd1  == SetHead(rd0, 1, MkHead(next, TRUE, nc))
        rd2  == SetV(rd1, 1, nn.data[0].v)
        rn   == [root EXCEPT !.count = 2, !.data = rd2]
    IN  Note(Put(Put(Put(s0, prev, pn), next, nn), 0, rn), << "split_root" >>)

\* split_node that leaves the count in the header of the node it split as it was.
split_node_stale_count(s, pointer, x) ==
    LET prev == s.cp
        a    == allocate(s)
        next == a.idx
        s0   == a.s
        po   == s0.node[prev]
        nc   == po.count \div 2
        pcnt == po.count - nc
        nn   == [s0.node[next] EXCEPT
                   !.index = po.index, !.inner = po.inner, !.count = nc,
                   !.data  = mmove(@, 0, po.data, pcnt, nc)]
        pn   == [po EXCEPT !.index = next, !.count = pcnt]
        s1   == Put(Put(s0, prev, pn), next, nn)
        par  == s1.node[pointer]
        d0   == par.data
        x1   == x + 1
        d1   == IF x1 < par.count
                THEN mmove(d0, x1 + 1, d0, x1, par.count - x1)
                ELSE d0
        d2   == SetV(d1, x1, nn.data[0].v)
        d3   == SetHead(d2, x1, MkHead(pn.index, pn.inner, nn.count))
    IN  Note(Put(s1, pointer, [par EXCEPT !.data = d3]), Kind("split_node", po.inner))

split_node(s, pointer, x) ==
    LET prev == s.cp
        a    == allocate(s)
        next == a.idx
        s0   == a.s
        po   == s0.node[prev]
        nc   == po.count \div 2
        pcnt == po.count - nc
        nn   == [s0.node[next] EXCEPT
                   !.index = po.index, !.inner = po.inner, !.count = nc,
                   !.data  = mmove(@, 0, po.data, pcnt, nc)]
        pn   == [po EXCEPT !.index = next, !.count = pcnt]
        s1   == Put(Put(s0, prev, pn), next, nn)
        par  == s1.node[pointer]
        d0   == SetHeadCount(par.data, x, pcnt)
        x1   == x + 1
        d1   == IF x1 < par.count
                THEN mmove(d0, x1 + 1, d0, x1, par.count - x1)
                ELSE d0
        d2   == SetV(d1, x1, nn.data[0].v)
        d3   == SetHead(d2, x1, MkHead(pn.index, pn.inner, nn.count))
    IN  Note(Put(s1, pointer, [par EXCEPT !.data = d3]), Kind("split_node", po.inner))

\* merge_node that leaves prev linked to the recycled node.
merge_node_no_relink(s, prev, next) ==
    LET s1 == modify(s, prev)
        po == s1.node[prev]
        no == s1.node[next]
        pn == [po EXCEPT
                 !.data  = mmove(@, po.count, no.data, 0, no.count),
                 !.count = po.count + no.count]
    IN  recycle(Put(s1, prev, pn), next)

\* merge_node that does not mark the node it merges into.
merge_node_unmarked(s, prev, next) ==
    LET po == s.node[prev]
        no == s.node[next]
        pn == [po EXCEPT
                 !.index = no.index, !.inner = no.inner,
                 !.data  = mmove(@, po.count, no.data, 0, no.count),
                 !.count = po.count + no.count]
    IN  recycle(Put(s, prev, pn), next)

merge_node(s, prev, next) ==
    LET s1 == modify(s, prev)
        po == s1.node[prev]
        no == s1.node[next]
        pn == [po EXCEPT
                 !.index = no.index, !.inner = no.inner,
                 !.data  = mmove(@, po.count, no.data, 0, no.count),
                 !.count = po.count + no.count]
    IN  recycle(Put(s1, prev, pn), next)

\* merge_root that recycles only one of the two children.
merge_root_leak(s, x) ==
    LET root == s.node[0]
        prev == IF x # 0 THEN get_pointer(root.data[0].head) ELSE s.cp
        next == IF x # 0 THEN s.cp ELSE get_pointer(root.data[1].head)
        po   == s.node[prev]
        no   == s.node[next]
        d1   == mmove(root.data, 0, po.data, 0, po.count)
        d2   == mmove(d1, po.count, no.data, 0, no.count)
        rn   == [root EXCEPT !.count = po.count + no.count + 1, !.data = d2]
    IN  Note(recycle(Put(s, 0, rn), next), << "merge_root" >>)

\* merge_root that copies the entries of next in front of those of prev.
merge_root_swapped(s, x) ==
    LET root == s.node[0]
        prev == IF x # 0 THEN get_pointer(root.data[0].head) ELSE s.cp
        next == IF x # 0 THEN s.cp ELSE get_pointer(root.data[1].head)
        po   == s.node[prev]
        no   == s.node[next]
        d1   == mmove(root.data, 0, no.data, 0, no.count)
        d2   == mmove(d1, no.count, po.data, 0, po.count)
        rn   == [root EXCEPT !.count = po.count + no.count + 1, !.data = d2]
    IN  Note(recycle(recycle(Put(s, 0, rn), prev), next), << "merge_root" >>)

merge_root(s, x) ==
    LET root == s.node[0]
        prev == IF x # 0 THEN get_pointer(root.data[0].head) ELSE s.cp
        next == IF x # 0 THEN s.cp ELSE get_pointer(root.data[1].head)
        po   == s.node[prev]
        no   == s.node[next]
        d1   == mmove(root.data, 0, po.data, 0, po.count)
        d2   == mmove(d1, po.count, no.data, 0, no.count)
        rn   == [root EXCEPT !.count = po.count + no.count + 1, !.data = d2]
    IN  Note(recycle(recycle(Put(s, 0, rn), prev), next), << "merge_root" >>)

\* erase_merge that never recycles the only leaf of the tree.
erase_merge_leak(s, pointer, x) ==
    LET par == s.node[pointer]
        cpn == s.node[s.cp]
    IN  IF par.count = 2 /\ cpn.inner THEN merge_root(s, x)
        ELSE IF par.count = 1
        THEN IF cpn.count # 0
             THEN Note(Put(s, pointer, [par EXCEPT !.count = @ + 1]), << "keep_only_leaf" >>)
             ELSE Note(s, << "recycle_only_leaf" >>)
        ELSE
        LET f0   == x # par.count - 1
            flag == IF f0 /\ x # 0
                    THEN par.data[x - 1].head.count > par.data[x + 1].head.count
                    ELSE f0
        IN  IF flag
            THEN LET prev == s.cp
                     next == get_pointer(par.data[x + 1].head)
                     s1   == merge_node(s, prev, next)
                     p1   == s1.node[pointer]
                     d1   == mmove(p1.data, x + 1, p1.data, x + 2, p1.count - x - 2)
                     d2   == SetHeadCount(d1, x, s1.node[prev].count)
                 IN  TieNote(Note(Put(s1, pointer, [p1 EXCEPT !.data = d2]),
                                  Kind("merge_next", cpn.inner)),
                             f0 /\ x # 0, par, x, "merge", "next")
            ELSE LET prev == get_pointer(par.data[x - 1].head)
                     next == s.cp
                     s1   == merge_node(s, prev, next)
                     p1   == s1.node[pointer]
                     d1   == mmove(p1.data, x, p1.data, x + 1, p1.count - x - 1)
                     d2   == SetHeadCount(d1, x - 1, s1.node[prev].count)
                 IN  TieNote(Note(Put(s1, pointer, [p1 EXCEPT !.data = d2]),
                                  Kind("merge_prev", cpn.inner)),
                             f0 /\ x # 0, par, x, "merge", "prev")

erase_merge(s, pointer, x) ==
    LET par == s.node[pointer]
        cpn == s.node[s.cp]
    IN  IF par.count = 2 /\ cpn.inner THEN merge_root(s, x)
        ELSE IF par.count = 1
        THEN IF cpn.count # 0
             THEN Note(Put(s, pointer, [par EXCEPT !.count = @ + 1]), << "keep_only_leaf" >>)
             ELSE Note(recycle(s, s.cp), << "recycle_only_leaf" >>)
        ELSE
        LET f0   == x # par.count - 1
            flag == IF f0 /\ x # 0
                    THEN par.data[x - 1].head.count > par.data[x + 1].head.count
                    ELSE f0
        IN  IF flag
            THEN LET prev == s.cp
                     next == get_pointer(par.data[x + 1].head)
                     s1   == merge_node(s, prev, next)
                     p1   == s1.node[pointer]
                     d1   == mmove(p1.data, x + 1, p1.data, x + 2, p1.count - x - 2)
                     d2   == SetHeadCount(d1, x, s1.node[prev].count)
                 IN  TieNote(Note(Put(s1, pointer, [p1 EXCEPT !.data = d2]),
                                  Kind("merge_next", cpn.inner)),
                             f0 /\ x # 0, par, x, "merge", "next")
            ELSE LET prev == get_pointer(par.data[x - 1].head)
                     next == s.cp
                     s1   == merge_node(s, prev, next)
                     p1   == s1.node[pointer]
                     d1   == mmove(p1.data, x, p1.data, x + 1, p1.count - x - 1)
                     d2   == SetHeadCount(d1, x - 1, s1.node[prev].count)
                 IN  TieNote(Note(Put(s1, pointer, [p1 EXCEPT !.data = d2]),
                                  Kind("merge_prev", cpn.inner)),
                             f0 /\ x # 0, par, x, "merge", "prev")

\* amortize_prev that moves the whole difference instead of half of it.
amortize_prev_no_halving(s, prev, next) ==
    LET s1    == modify(modify(s, prev), next)
        po    == s1.node[prev]
        no    == s1.node[next]
        delta == po.count - no.count
        nd1   == mmove(no.data, delta, no.data, 0, no.count)
        pcnt  == po.count - delta
        nd2   == mmove(nd1, 0, po.data, pcnt, delta)
    IN  Put(Put(s1, prev, [po EXCEPT !.count = pcnt]),
            next, [no EXCEPT !.count = no.count + delta, !.data = nd2])

amortize_prev(s, prev, next) ==
    LET s1    == modify(modify(s, prev), next)
        po    == s1.node[prev]
        no    == s1.node[next]
        delta == (po.count - no.count) \div 2
        nd1   == mmove(no.data, delta, no.data, 0, no.count)
        pcnt  == po.count - delta
        nd2   == mmove(nd1, 0, po.data, pcnt, delta)
    IN  Put(Put(s1, prev, [po EXCEPT !.count = pcnt]),
            next, [no EXCEPT !.count = no.count + delta, !.data = nd2])

amortize_next(s, prev, next) ==
    LET s1    == modify(modify(s, prev), next)
        po    == s1.node[prev]
        no    == s1.node[next]
        delta == (no.count - po.count) \div 2
        pd    == mmove(po.data, po.count, no.data, 0, delta)
        ncnt  == no.count - delta
        nd    == mmove(no.data, 0, no.data, delta, ncnt)
    IN  Put(Put(s1, prev, [po EXCEPT !.count = po.count + delta, !.data = pd]),
            next, [no EXCEPT !.count = ncnt, !.data = nd])

\* The bookkeeping without the update of the next child's smallest pair.
AmortFix_no_min(s, pointer, xp, prev, next) ==
    LET par == s.node[pointer]
        d1  == SetHeadCount(par.data, xp, s.node[prev].count)
        d2  == SetHeadCount(d1, xp + 1, s.node[next].count)
    IN  Put(s, pointer, [par EXCEPT !.data = d2])

\* The parent's bookkeeping after amortizing children xp (prev) and xp + 1.
AmortFix(s, pointer, xp, prev, next) ==
    LET par == s.node[pointer]
        d1  == SetHeadCount(par.data, xp, s.node[prev].count)
        d2  == SetHeadCount(d1, xp + 1, s.node[next].count)
        d3  == SetV(d2, xp + 1, s.node[next].data[0].v)
    IN  Put(s, pointer, [par EXCEPT !.data = d3])

\* insert_amortize that prefers the next sibling when the counts are equal.
insert_amortize_ties_next(s, pointer, x) ==
    LET par == s.node[pointer]
        g0  == x # par.count - 1 /\ par.data[x + 1].head.count < AMORT_SIZE
        g1  == x # 0 /\ par.data[x - 1].head.count < AMORT_SIZE
        gt  == par.data[x - 1].head.count >= par.data[x + 1].head.count
        f0  == IF g0 /\ g1 /\ ~gt THEN FALSE ELSE g0
        f1  == IF g0 /\ g1 /\ gt THEN FALSE ELSE g1
    IN  IF f1
        THEN LET prev == get_pointer(par.data[x - 1].head)
                 next == s.cp
             IN  [ok |-> TRUE,
                  s  |-> TieNote(Note(AmortFix(amortize_next(s, prev, next),
                                               pointer, x - 1, prev, next),
                                      Kind("insert_amortize_prev", s.node[s.cp].inner)),
                                 g0 /\ g1, par, x, "insert_amortize", "prev")]
        ELSE IF f0
        THEN LET prev == s.cp
                 next == get_pointer(par.data[x + 1].head)
             IN  [ok |-> TRUE,
                  s  |-> TieNote(Note(AmortFix(amortize_prev(s, prev, next),
                                               pointer, x, prev, next),
                                      Kind("insert_amortize_next", s.node[s.cp].inner)),
                                 g0 /\ g1, par, x, "insert_amortize", "next")]
        ELSE [ok |-> FALSE, s |-> s]


insert_amortize(s, pointer, x) ==
    LET par == s.node[pointer]
        g0  == x # par.count - 1 /\ par.data[x + 1].head.count < AMORT_SIZE
        g1  == x # 0 /\ par.data[x - 1].head.count < AMORT_SIZE
        gt  == par.data[x - 1].head.count > par.data[x + 1].head.count
        f0  == IF g0 /\ g1 /\ ~gt THEN FALSE ELSE g0
        f1  == IF g0 /\ g1 /\ gt THEN FALSE ELSE g1
    IN  IF f1
        THEN LET prev == get_pointer(par.data[x - 1].head)
                 next == s.cp
             IN  [ok |-> TRUE,
                  s  |-> TieNote(Note(AmortFix(amortize_next(s, prev, next),
                                               pointer, x - 1, prev, next),
                                      Kind("insert_amortize_prev", s.node[s.cp].inner)),
                                 g0 /\ g1, par, x, "insert_amortize", "prev")]
        ELSE IF f0
        THEN LET prev == s.cp
                 next == get_pointer(par.data[x + 1].head)
             IN  [ok |-> TRUE,
                  s  |-> TieNote(Note(AmortFix(amortize_prev(s, prev, next),
                                               pointer, x, prev, next),
                                      Kind("insert_amortize_next", s.node[s.cp].inner)),
                                 g0 /\ g1, par, x, "insert_amortize", "next")]
        ELSE [ok |-> FALSE, s |-> s]

erase_amortize(s, pointer, x) ==
    LET par == s.node[pointer]
        g0  == x # 0 /\ par.data[x - 1].head.count >= AMORT_SIZE
        g1  == x # par.count - 1 /\ par.data[x + 1].head.count >= AMORT_SIZE
        gt  == par.data[x - 1].head.count > par.data[x + 1].head.count
        f0  == IF g0 /\ g1 /\ ~gt THEN FALSE ELSE g0
        f1  == IF g0 /\ g1 /\ gt THEN FALSE ELSE g1
    IN  IF f0
        THEN LET prev == get_pointer(par.data[x - 1].head)
                 next == s.cp
             IN  [ok |-> TRUE,
                  s  |-> TieNote(Note(AmortFix(amortize_prev(s, prev, next),
                                               pointer, x - 1, prev, next),
                                      Kind("erase_amortize_prev", s.node[s.cp].inner)),
                                 g0 /\ g1, par, x, "erase_amortize", "prev")]
        ELSE IF f1
        THEN LET prev == s.cp
                 next == get_pointer(par.data[x + 1].head)
             IN  [ok |-> TRUE,
                  s  |-> TieNote(Note(AmortFix(amortize_next(s, prev, next),
                                               pointer, x, prev, next),
                                      Kind("erase_amortize_next", s.node[s.cp].inner)),
                                 g0 /\ g1, par, x, "erase_amortize", "next")]
        ELSE [ok |-> FALSE, s |-> s]

(* ------------------------------ tree: insert --------------------------- *)

insert_outer(s, h, key, val) ==
    LET head    == rdHead(s, h)
        pointer == get_pointer(head)
        x       == binary_search(s.node[pointer].data, key, val, 0, head.count)
    IN  IF x < 0 THEN [ret |-> FALSE, s |-> s]
        ELSE
        LET s1 == modify(s, pointer)
            n  == s1.node[pointer]
            d1 == mmove(n.data, x + 1, n.data, x, head.count - x)
            d2 == SetV(d1, x, [key |-> key, val |-> val])
            c  == n.count + 1
            s2 == Put(s1, pointer, [n EXCEPT !.data = d2, !.count = c])
            s3 == wrHeadCount(s2, h, c)
        IN  [ret |-> TRUE, s |-> [s3 EXCEPT !.cp = pointer]]

\* insert_adjust that lets a child keep BLOCK_SIZE + 1 entries.
insert_adjust_late(r, h, pointer, x) ==
    IF ~r.ret THEN [ret |-> FALSE, s |-> r.s]
    ELSE
    LET s2 == modify(r.s, pointer)
    IN  IF s2.node[s2.cp].count <= BLOCK_SIZE + 1
        THEN [ret |-> FALSE, s |-> s2]
        ELSE
        LET am == insert_amortize(s2, pointer, x)
        IN  IF am.ok THEN [ret |-> FALSE, s |-> am.s]
            ELSE
            LET s3 == split_node(s2, pointer, x)
                c  == s3.node[pointer].count + 1
                s4 == Put(s3, pointer, [s3.node[pointer] EXCEPT !.count = c])
                s5 == wrHeadCount(s4, h, c)
            IN  [ret |-> TRUE, s |-> [s5 EXCEPT !.cp = pointer]]

\* insert_adjust that splits an overfull child without trying its siblings.
insert_adjust_split_first(r, h, pointer, x) ==
    IF ~r.ret THEN [ret |-> FALSE, s |-> r.s]
    ELSE
    LET s2 == modify(r.s, pointer)
    IN  IF s2.node[s2.cp].count <= BLOCK_SIZE
        THEN [ret |-> FALSE, s |-> s2]
        ELSE
        LET s3 == split_node(s2, pointer, x)
            c  == s3.node[pointer].count + 1
            s4 == Put(s3, pointer, [s3.node[pointer] EXCEPT !.count = c])
            s5 == wrHeadCount(s4, h, c)
        IN  [ret |-> TRUE, s |-> [s5 EXCEPT !.cp = pointer]]

\* insert in the node under header h once the insert into its child x has
\* returned r: the parent is adjusted if the child is too full.
insert_adjust(r, h, pointer, x) ==
    IF ~r.ret THEN [ret |-> FALSE, s |-> r.s]
    ELSE
    LET s2 == modify(r.s, pointer)
    IN  IF s2.node[s2.cp].count <= BLOCK_SIZE
        THEN [ret |-> FALSE, s |-> s2]
        ELSE
        LET am == insert_amortize(s2, pointer, x)
        IN  IF am.ok THEN [ret |-> FALSE, s |-> am.s]
            ELSE
            LET s3 == split_node(s2, pointer, x)
                c  == s3.node[pointer].count + 1
                s4 == Put(s3, pointer, [s3.node[pointer] EXCEPT !.count = c])
                s5 == wrHeadCount(s4, h, c)
            IN  [ret |-> TRUE, s |-> [s5 EXCEPT !.cp = pointer]]

RECURSIVE insert(_, _, _, _)
insert(s, h, key, val) ==
    LET head == rdHead(s, h)
    IN  IF ~head.inner THEN insert_outer(s, h, key, val)
        ELSE
        LET pointer == get_pointer(head)
            x0      == binary_search(s.node[pointer].data, key, val, 0, head.count)
        IN  IF x0 < 0 THEN [ret |-> FALSE, s |-> s]
            ELSE
            LET x  == IF x0 > 0 THEN x0 - 1 ELSE x0
                s1 == IF x0 > 0 THEN s
                      ELSE LET m == modify(s, pointer)
                           IN  Put(m, pointer,
                                   [m.node[pointer] EXCEPT
                                      !.data = SetV(@, 0, [key |-> key, val |-> val])])
            IN  insert_adjust(insert(s1, EntryRef(pointer, x), key, val),
                              h, pointer, x)

(* ------------------------------ tree: erase ---------------------------- *)

\* erase_outer without the early return for a pair that is not found.
erase_outer_unchecked(s, h, key, val) ==
    LET head    == rdHead(s, h)
        pointer == get_pointer(head)
        x0      == Cpl(binary_search(s.node[pointer].data, key, val, 0, head.count))
        x       == IF x0 < 0 THEN Cpl(x0) ELSE x0
        s1 == modify(s, pointer)
        n  == s1.node[pointer]
        d1 == mmove(n.data, x, n.data, x + 1, head.count - x - 1)
        c  == n.count - 1
        s2 == Put(s1, pointer, [n EXCEPT !.data = d1, !.count = c])
        s3 == wrHeadCount(s2, h, c)
    IN  [ret |-> TRUE, s |-> [s3 EXCEPT !.cp = pointer]]

\* erase_outer that leaves the count in the header above the leaf as it was.
erase_outer_stale_head(s, h, key, val) ==
    LET head    == rdHead(s, h)
        pointer == get_pointer(head)
        x       == Cpl(binary_search(s.node[pointer].data, key, val, 0, head.count))
    IN  IF x < 0 THEN [ret |-> FALSE, s |-> s]
        ELSE
        LET s1 == modify(s, pointer)
            n  == s1.node[pointer]
            d1 == mmove(n.data, x, n.data, x + 1, head.count - x - 1)
            c  == n.count - 1
            s2 == Put(s1, pointer, [n EXCEPT !.data = d1, !.count = c])
        IN  [ret |-> TRUE, s |-> [s2 EXCEPT !.cp = pointer]]

erase_outer(s, h, key, val) ==
    LET head    == rdHead(s, h)
        pointer == get_pointer(head)
        x       == Cpl(binary_search(s.node[pointer].data, key, val, 0, head.count))
    IN  IF x < 0 THEN [ret |-> FALSE, s |-> s]
        ELSE
        LET s1 == modify(s, pointer)
            n  == s1.node[pointer]
            d1 == mmove(n.data, x, n.data, x + 1, head.count - x - 1)
            c  == n.count - 1
            s2 == Put(s1, pointer, [n EXCEPT !.data = d1, !.count = c])
            s3 == wrHeadCount(s2, h, c)
        IN  [ret |-> TRUE, s |-> [s3 EXCEPT !.cp = pointer]]

\* erase_adjust that leaves an inner child alone however few entries it has.
erase_adjust_leaves_only(r, h, pointer, x, flag) ==
    IF ~r.ret THEN [ret |-> FALSE, s |-> r.s]
    ELSE
    LET s1 == modify(r.s, pointer)
        s2 == IF flag
              THEN Put(s1, pointer,
                       [s1.node[pointer] EXCEPT
                          !.data = SetV(@, x, s1.node[s1.cp].data[0].v)])
              ELSE s1
    IN  IF s2.node[s2.cp].count > MERGE_SIZE \/ s2.node[s2.cp].inner
        THEN [ret |-> flag /\ x = 0, s |-> s2]
        ELSE
        LET am == erase_amortize(s2, pointer, x)
        IN  IF am.ok THEN [ret |-> flag /\ x = 0, s |-> am.s]
            ELSE
            LET s3 == erase_merge(s2, pointer, x)
                c  == s3.node[pointer].count - 1
                s4 == Put(s3, pointer, [s3.node[pointer] EXCEPT !.count = c])
                s5 == wrHeadCount(s4, h, c)
            IN  [ret |-> TRUE, s |-> [s5 EXCEPT !.cp = pointer]]

\* erase_adjust that merges an underfull child without trying to take
\* entries from its siblings.
erase_adjust_merge_first(r, h, pointer, x, flag) ==
    IF ~r.ret THEN [ret |-> FALSE, s |-> r.s]
    ELSE
    LET s1 == modify(r.s, pointer)
        s2 == IF flag
              THEN Put(s1, pointer,
                       [s1.node[pointer] EXCEPT
                          !.data = SetV(@, x, s1.node[s1.cp].data[0].v)])
              ELSE s1
    IN  IF s2.node[s2.cp].count > MERGE_SIZE
        THEN [ret |-> flag /\ x = 0, s |-> s2]
        ELSE
        LET s3 == erase_merge(s2, pointer, x)
            c  == s3.node[pointer].count - 1
            s4 == Put(s3, pointer, [s3.node[pointer] EXCEPT !.count = c])
            s5 == wrHeadCount(s4, h, c)
        IN  [ret |-> TRUE, s |-> [s5 EXCEPT !.cp = pointer]]

\* erase in the node under header h once the erase from its child x has
\* returned r: the parent is adjusted if the child is too empty.
erase_adjust(r, h, pointer, x, flag) ==
    IF ~r.ret THEN [ret |-> FALSE, s |-> r.s]
    ELSE
    LET s1 == modify(r.s, pointer)
        s2 == IF flag
              THEN Put(s1, pointer,
                       [s1.node[pointer] EXCEPT
                          !.data = SetV(@, x, s1.node[s1.cp].data[0].v)])
              ELSE s1
    IN  IF s2.node[s2.cp].count > MERGE_SIZE
        THEN [ret |-> flag /\ x = 0, s |-> s2]
        ELSE
        LET am == erase_amortize(s2, pointer, x)
        IN  IF am.ok THEN [ret |-> flag /\ x = 0, s |-> am.s]
            ELSE
            LET s3 == erase_merge(s2, pointer, x)
                c  == s3.node[pointer].count - 1
                s4 == Put(s3, pointer, [s3.node[pointer] EXCEPT !.count = c])
                s5 == wrHeadCount(s4, h, c)
            IN  [ret |-> TRUE, s |-> [s5 EXCEPT !.cp = pointer]]

RECURSIVE erase(_, _, _, _)
erase(s, h, key, val) ==
    LET head == rdHead(s, h)
    IN  IF ~head.inner THEN erase_outer(s, h, key, val)
        ELSE
        LET pointer == get_pointer(head)
            x0      == binary_search(s.node[pointer].data, key, val, 0, head.count)
        IN  IF x0 = 0 THEN [ret |-> FALSE, s |-> s]
            ELSE
            LET x    == IF x0 > 0 THEN x0 - 1 ELSE Cpl(x0)
                flag == x0 < 0
            IN  erase_adjust(erase(s, EntryRef(pointer, x), key, val),
                             h, pointer, x, flag)

(* ------------------------------ tree: public --------------------------- *)

empty(s) == s.node[0].count = 0

\* Slots at or beyond count are dead once the operation has returned.
DropDead(s) ==
    [s EXCEPT !.node = [i \in DOMAIN @ |->
                          [@[i] EXCEPT !.data = Trunc(@, s.node[i].count)]]]

\* root_adjust that tolerates one entry more before it splits the root.
root_adjust_late(r) ==
    IF r.ret /\ r.s.node[0].count > BLOCK_SIZE + 1 THEN split_root(r.s) ELSE r.s

\* The root is split when the insert below it returned r and left it too full.
root_adjust(r) ==
    IF r.ret /\ r.s.node[0].count > BLOCK_SIZE THEN split_root(r.s) ELSE r.s

tree_insert(s, key, val) ==
    IF empty(s) THEN DropDead(insert_root(s, key, val))
    ELSE DropDead(root_adjust(insert(s, RootRef, key, val)))

tree_erase(s, key, val) ==
    IF ~empty(s) THEN DropDead(erase(s, RootRef, key, val).s) ELSE s

\* The scan of find that stops at the end of the first leaf.
RECURSIVE find_scan_one_leaf(_, _, _, _, _)
find_scan_one_leaf(s, pointer, x, cnt, key) ==
    LET n == s.node[pointer]
    IN  IF x # cnt
        THEN IF k_comp(key, n.data[x].v.key) # 0 THEN << >>
             ELSE << n.data[x].v.val >> \o find_scan_one_leaf(s, pointer, x + 1, cnt, key)
        ELSE << >>

\* The scan of find inside the leaf at pointer from slot x up to cnt, then
\* along next(): the values appended to the return list.
RECURSIVE find_scan(_, _, _, _, _)
find_scan(s, pointer, x, cnt, key) ==
    LET n == s.node[pointer]
    IN  IF x # cnt
        THEN IF k_comp(key, n.data[x].v.key) # 0 THEN << >>
             ELSE << n.data[x].v.val >> \o find_scan(s, pointer, x + 1, cnt, key)
        ELSE IF n.index # MAXN_SIZE
             THEN find_scan(s, n.index, 0, s.node[n.index].count, key)
             ELSE << >>

\* The descent of find: the header of the leaf the scan starts in.
RECURSIVE find_leaf(_, _, _)
find_leaf(s, head, key) ==
    IF head.inner
    THEN LET pointer == get_pointer(head)
             x == lower_bound(s.node[pointer].data, 1, key, 0, head.count - 1)
         IN  find_leaf(s, s.node[pointer].data[x].head, key)
    ELSE head

find(s, key) ==
    IF empty(s) THEN << >>
    ELSE LET head    == find_leaf(s, HeadOf(s.node[0]), key)
             pointer == get_pointer(head)
             x == lower_bound(s.node[pointer].data, 0, key, 0, head.count)
         IN  find_scan(s, pointer, x, head.count, key)

(* ------------------------------ tree: iterator ------------------------- *)

\* An iterator {__t, pointer, index}: the leaf and the slot in it.
end == [pointer |-> -1, index |-> -1]

valid(it) == it.index # -1

\* iterator::operator++
iterator_next(s, it) ==
    LET index == it.index + 1
        n     == s.node[it.pointer]
    IN  IF index = n.count
        THEN IF n.index = MAXN_SIZE
             THEN [pointer |-> it.pointer, index |-> -1]
             ELSE [pointer |-> n.index, index |-> 0]
        ELSE [pointer |-> it.pointer, index |-> index]

\* iterator::operator*
deref(s, it) == s.node[it.pointer].data[it.index].v

\* tree::find(key) -> iterator
find_iterator(s, key) ==
    IF empty(s) THEN end
    ELSE LET head    == find_leaf(s, HeadOf(s.node[0]), key)
             pointer == get_pointer(head)
             x == lower_bound(s.node[pointer].data, 0, key, 0, head.count)
         IN  IF x = head.count
             THEN iterator_next(s, [pointer |-> pointer, index |-> x - 1])
             ELSE [pointer |-> pointer, index |-> x]

(* -------------------------------- driver ------------------------------- *)

\* The commands the driver is fed, by the input file it is given (mode).
\*  "free":  any pair of FreePairs, present or not, in any order.
\*  "stack": the first StackLen pairs, inserted in ascending order and erased
\*           in descending order, in any interleaving.
\*  "l_u":   some pairs inserted in ascending (l = asc) or descending
\*           (l = desc) order, then erased smallest first (u = min) or
\*           largest first (u = max).
\*  "edit_thin", "edit_full": the pairs of EditLoaded inserted in the order
\*           of EditOrder, which builds three leaves, then any insert or
\*           erase of a pair of EditPairs that keeps the stored set within
\*           EditDist pairs of EditLoaded.
\*  "tall_u": some pairs of TallPairs inserted in ascending order, enough of
\*           them for a tree of four levels, then erased smallest first
\*           (u = min) or largest first (u = max).
\*  "persist": any pair of PersistPairs, in runs of the driver separated by
\*           closing and reopening the tree, with cache evictions.
\* In "stack" and the scripted modes the stored set is a run of consecutive pairs, so
\* trees of height 3 are reached with few reference sets.
PairLess(a, b) == a.key < b.key \/ (a.key = b.key /\ a.val < b.val)

\* Position of a pair in ascending order, from 1.
Pos(p) == (p.key - 1) * NumVals + p.val

FreePairs == [key : {1, 2}, val : 1..FreeVals]

StackPairs == {p \in Pairs : Pos(p) <= StackLen}

Scripts == {"asc_min", "asc_max", "desc_min", "desc_max"}

\* The pair at position n of the ascending order, from 1.
PairAt(n) == [key |-> ((n - 1) \div NumVals) + 1, val |-> ((n - 1) % NumVals) + 1]

\* Positions of the pairs loaded, in the order they are inserted: two
\* leaves, one more pair for the first, a third leaf, and for "edit_full"
\* the gaps of the middle leaf.
EditOrder == << 1, 2, 3, 4, 5, 10, 12, 14, 16, 18, 6, 20, 21, 22, 23, 24,
                11, 13, 15, 17 >>

EditLen == IF mode = "edit_thin" THEN 16 ELSE Len(EditOrder)

EditLoaded == {PairAt(EditOrder[i]) : i \in 1..EditLen}

\* The pairs edited: two of the first leaf, two of the middle leaf and one
\* that is missing from it, the last pair and the one after it.
EditPairs == {PairAt(n) : n \in {1, 2, 10, 12, 19, 24, 25}}

EditNear(S) == Cardinality((S \ EditLoaded) \cup (EditLoaded \ S)) <= EditDist

Modes == {"free", "stack"} \cup Scripts

TallPairs == [key : Keys, val : 1..TallVals]

TallModes == {"tall_min", "tall_max"}

PersistPairs == [key : {1, 2}, val : 1..PersistVals]

Lowest(S) == {p \in S : \A q \in S : q = p \/ PairLess(p, q)}

Highest(S) == {p \in S : \A q \in S : q = p \/ PairLess(q, p)}

InsertInputs ==
    CASE mode = "free"   -> FreePairs
      [] mode = "persist" -> PersistPairs
      [] mode = "stack"  -> Lowest(StackPairs \ ref)
      [] mode \in TallModes ->
            IF unloading THEN {} ELSE Lowest(TallPairs \ ref)
      [] mode \in EditModes ->
            IF unloading THEN {p \in EditPairs \ ref : EditNear(ref \cup {p})}
            ELSE IF Cardinality(ref) < EditLen
                 THEN {PairAt(EditOrder[Cardinality(ref) + 1])}
                 ELSE {}
      [] mode \in Scripts ->
            IF unloading THEN {}
            ELSE IF mode \in {"asc_min", "asc_max"} THEN Lowest(Pairs \ ref)
            ELSE Highest(Pairs \ ref)

EraseInputs ==
    CASE mode = "free"   -> FreePairs
      [] mode = "persist" -> PersistPairs
      [] mode = "stack"  -> Highest(ref)
      [] mode \in TallModes ->
            IF mode = "tall_min" THEN Lowest(ref) ELSE Highest(ref)
      [] mode \in EditModes ->
            IF unloading \/ ref = EditLoaded
            THEN {p \in ref \cap EditPairs : EditNear(ref \ {p})}
            ELSE {}
      [] mode \in Scripts ->
            IF mode \in {"asc_min", "desc_min"} THEN Lowest(ref) ELSE Highest(ref)

NoVisitor == -1

\* The .bin file of a fresh file pair; once read by the constructor its
\* content is dead until the next close rewrites it.
NoMeta == [free |-> << >>, top |-> 1]

\* No finds recorded: the tree has been used since it was opened.
NoSnap == [k \in Keys |-> << >>]

Store == [node |-> node, dirty |-> dirty, free |-> free, top |-> top,
          cp |-> cache_pointer, ev |-> {}]

FreeSet(f) == {f[i] : i \in 1..Len(f)}

\* The file after an operation: appended blocks exist.  The bytes of a
\* recycled block, and of a block whose slot is dirty, are dead: they are
\* written again before they are next read.
DiskAfter(s) ==
    [j \in DOMAIN s.node |->
        IF j \in FreeSet(s.free) \/ j \in s.dirty \/ j \notin DOMAIN disk
        THEN ZeroNode ELSE disk[j]]

Install(s, op, p) ==
    /\ last' = [op |-> op, found |-> p \in ref, ev |-> s.ev]
    /\ node' = s.node
    /\ dirty' = s.dirty
    /\ free' = s.free
    /\ top' = s.top
    /\ cache_pointer' = s.cp
    /\ disk' = DiskAfter(s)

\* tree(path) on a fresh file pair.
Fresh ==
    /\ node = [i \in {0} |-> ZeroNode]
    /\ disk = [i \in {0} |-> ZeroNode]
    /\ dirty = {0}
    /\ free = << >>
    /\ top = 1
    /\ meta = NoMeta
    /\ cache_pointer = NoVisitor
    /\ alive = TRUE
    /\ ref = {}
    /\ snap = NoSnap
    /\ last = [op |-> "open", found |-> FALSE, ev |-> {}]
    /\ unloading = FALSE

Init ==
    /\ Fresh
    /\ mode \in Modes

\* driver: t.insert(str, read<int>())
Insert(k, v) ==
    /\ alive
    /\ Install(tree_insert(Store, k, v), "insert", [key |-> k, val |-> v])
    /\ ref' = ref \cup {[key |-> k, val |-> v]}
    /\ snap' = NoSnap
    /\ UNCHANGED << meta, alive, mode, unloading >>

\* driver: t.erase(str, read<int>())
Erase(k, v) ==
    /\ alive
    /\ Install(tree_erase(Store, k, v), "erase", [key |-> k, val |-> v])
    /\ ref' = ref \ {[key |-> k, val |-> v]}
    /\ unloading' = (mode \in Scripts \cup EditModes \cup TallModes)
    /\ snap' = NoSnap
    /\ UNCHANGED << meta, alive, mode >>

\* The page cache writes a victim back if it is dirty and drops it; the next
\* access reads the block from the file.  A slot a live visitor refers to
\* (cache_pointer) is pinned.
Evict(i) ==
    /\ alive
    /\ i \in DOMAIN node /\ i # 0 /\ i # cache_pointer
    /\ i \notin FreeSet(free)
    /\ i \in dirty \/ node[i] # disk[i]
    /\ disk' = IF i \in dirty THEN [disk EXCEPT ![i] = node[i]] ELSE disk
    /\ node' = [node EXCEPT ![i] = disk'[i]]
    /\ dirty' = dirty \ {i}
    /\ UNCHANGED << free, top, meta, cache_pointer, alive, ref, snap, last, mode,
                    unloading >>

\* ~tree() that never writes the root.
tree_dtor_skip(d) == d

\* ~tree(): the root is written to block 0 if root_state is modified.
tree_dtor(d) == IF 0 \in dirty THEN [d EXCEPT ![0] = node[0]] ELSE d

\* The file manager's close: every dirty slot written, free list persisted.
file_close(d) == [j \in DOMAIN d |-> IF j \in dirty \ {0} THEN node[j] ELSE d[j]]

\* The tree object is destroyed; its memory is gone.
Close ==
    /\ alive
    /\ disk' = file_close(tree_dtor(disk))
    /\ meta' = [free |-> free, top |-> top]
    /\ snap' = [k \in Keys |-> find(Store, k)]
    /\ alive' = FALSE
    /\ node' = [i \in {0} |-> ZeroNode]
    /\ dirty' = {}
    /\ free' = << >>
    /\ top' = 1
    /\ cache_pointer' = NoVisitor
    /\ last' = [op |-> "close", found |-> FALSE, ev |-> {}]
    /\ UNCHANGED << ref, mode, unloading >>

\* tree(path) on an existing file pair: the root is read from block 0 and
\* is clean; every other block is read when first visited.
Reopen ==
    /\ ~alive
    /\ node' = disk
    /\ dirty' = {}
    /\ free' = meta.free
    /\ top' = meta.top
    /\ cache_pointer' = NoVisitor
    /\ alive' = TRUE
    /\ last' = [op |-> "reopen", found |-> FALSE, ev |-> {}]
    /\ meta' = NoMeta
    /\ UNCHANGED << disk, ref, snap, mode, unloading >>

Next ==
    \/ \E p \in InsertInputs : Insert(p.key, p.val)
    \/ \E p \in EraseInputs : Erase(p.key, p.val)

Spec == Init /\ [][Next]_vars

\* The driver given an "edit" input.
InitEdit ==
    /\ Fresh
    /\ mode \in EditModes

SpecEdit == InitEdit /\ [][Next]_vars

\* The driver given a "stack" or a scripted input.
InitScript ==
    /\ Fresh
    /\ mode \in {"stack"} \cup Scripts

SpecScript == InitScript /\ [][Next]_vars

\* The driver given a scripted input that erases from the low end.
InitDrain ==
    /\ Fresh
    /\ mode \in {"asc_min", "desc_min"}

SpecDrain == InitDrain /\ [][Next]_vars

\* The driver given a "tall" input.
InitTall ==
    /\ Fresh
    /\ mode \in TallModes

SpecTall == InitTall /\ [][Next]_vars

\* The driver given any of the inputs.
InitAll ==
    /\ Fresh
    /\ mode \in Modes \cup EditModes

SpecAll == InitAll /\ [][Next]_vars

\* The driver run again and again on the same files, with cache evictions.
InitPersist ==
    /\ Fresh
    /\ mode = "persist"

NextPersist ==
    \/ \E p \in InsertInputs : Insert(p.key, p.val)
    \/ \E p \in EraseInputs : Erase(p.key, p.val)
    \/ \E i \in DOMAIN node : Evict(i)
    \/ Close
    \/ Reopen

SpecPersist == InitPersist /\ [][NextPersist]_vars

(* ------------------------- the searches, stepwise ---------------------- *)
(* binary_search and lower_bound run on their own over an entry array,     *)
(* one loop iteration per step.  The array is node[0].data; last holds the *)
(* call and the position of the loop:                                      *)
(*   op, key, val : the call;  from, to : the range [l, r) it was given    *)
(*   l, r : the loop variables;  done, ret : whether and what it returned  *)
(*   pass : how many times the loop condition has been tested             *)

\* Keys of the arrays searched.
SearchKeys == 3

\* Values of the arrays searched.
SearchVals == 2

\* Longest array searched.
SearchLen == 4

SearchPairs == [key : 1..SearchKeys, val : 1..SearchVals]

\* The entries S as an entry array, strictly ascending by (key, value).
SortedData(S) ==
    [i \in 0..(Cardinality(S) - 1) |->
        [v    |-> CHOOSE p \in S : Cardinality({q \in S : PairLess(q, p)}) = i,
         head |-> ZeroHead]]

\* One pass of binary_search's loop that keeps mid in the range on a
\* greater pair.
binary_search_pass_keeps_mid(data, key, val, l, r) ==
    IF l = r THEN [l |-> l, r |-> r, done |-> TRUE, ret |-> l]
    ELSE LET mid == (l + r) \div 2
             c1  == k_comp(key, data[mid].v.key)
             cmp == IF c1 = 0 THEN v_comp(val, data[mid].v.val) ELSE c1
         IN  IF cmp > 0 THEN [l |-> mid, r |-> r, done |-> FALSE, ret |-> 0]
             ELSE IF cmp < 0 THEN [l |-> l, r |-> mid, done |-> FALSE, ret |-> 0]
             ELSE [l |-> l, r |-> r, done |-> TRUE, ret |-> Cpl(mid)]

\* One pass of binary_search's loop: the test of l != r and, if it holds,
\* the body.
binary_search_pass(data, key, val, l, r) ==
    IF l = r THEN [l |-> l, r |-> r, done |-> TRUE, ret |-> l]
    ELSE LET mid == (l + r) \div 2
             c1  == k_comp(key, data[mid].v.key)
             cmp == IF c1 = 0 THEN v_comp(val, data[mid].v.val) ELSE c1
         IN  IF cmp > 0 THEN [l |-> mid + 1, r |-> r, done |-> FALSE, ret |-> 0]
             ELSE IF cmp < 0 THEN [l |-> l, r |-> mid, done |-> FALSE, ret |-> 0]
             ELSE [l |-> l, r |-> r, done |-> TRUE, ret |-> Cpl(mid)]

\* One pass of lower_bound's loop.
lower_bound_pass(data, key, l, r) ==
    IF l = r THEN [l |-> l, r |-> r, done |-> TRUE, ret |-> l]
    ELSE LET mid == (l + r) \div 2
         IN  IF k_comp(key, data[mid].v.key) > 0
             THEN [l |-> mid + 1, r |-> r, done |-> FALSE, ret |-> 0]
             ELSE [l |-> l, r |-> mid, done |-> FALSE, ret |-> 0]

\* An ascending array of at most SearchLen entries, no search called yet.
InitSearch ==
    /\ \E S \in SUBSET SearchPairs :
          /\ Cardinality(S) <= SearchLen
          /\ node = [i \in {0} |->
                       [ZeroNode EXCEPT !.count = Cardinality(S),
                                        !.data = SortedData(S)]]
    /\ disk = [i \in {0} |-> ZeroNode]
    /\ dirty = {0}
    /\ free = << >>
    /\ top = 1
    /\ meta = NoMeta
    /\ cache_pointer = NoVisitor
    /\ alive = TRUE
    /\ ref = {}
    /\ snap = NoSnap
    /\ last = [op |-> "open", found |-> FALSE, ev |-> {}]
    /\ mode = "search"
    /\ unloading = FALSE

\* binary_search(data, key, val, l, r) is entered.
CallBinarySearch(key, val, l, r) ==
    /\ last.op = "open"
    /\ last' = [op |-> "binary_search", key |-> key, val |-> val,
                from |-> l, to |-> r, l |-> l, r |-> r,
                done |-> FALSE, ret |-> 0, pass |-> 0]
    /\ UNCHANGED << node, disk, dirty, free, top, meta, cache_pointer, alive,
                    ref, snap, mode, unloading >>

\* lower_bound(data, key, l, r) is entered.
CallLowerBound(key, l, r) ==
    /\ last.op = "open"
    /\ last' = [op |-> "lower_bound", key |-> key, val |-> 0,
                from |-> l, to |-> r, l |-> l, r |-> r,
                done |-> FALSE, ret |-> 0, pass |-> 0]
    /\ UNCHANGED << node, disk, dirty, free, top, meta, cache_pointer, alive,
                    ref, snap, mode, unloading >>

\* The loop of binary_search goes round once, or is left.
PassBinarySearch ==
    /\ last.op = "binary_search" /\ ~last.done
    /\ LET n == binary_search_pass(node[0].data, last.key, last.val, last.l, last.r)
       IN  last' = [last EXCEPT !.l = n.l, !.r = n.r, !.done = n.done, !.ret = n.ret,
                               !.pass = @ + 1]
    /\ UNCHANGED << node, disk, dirty, free, top, meta, cache_pointer, alive,
                    ref, snap, mode, unloading >>

\* The loop of lower_bound goes round once, or is left.
PassLowerBound ==
    /\ last.op = "lower_bound" /\ ~last.done
    /\ LET n == lower_bound_pass(node[0].data, last.key, last.l, last.r)
       IN  last' = [last EXCEPT !.l = n.l, !.r = n.r, !.done = n.done, !.ret = n.ret,
                               !.pass = @ + 1]
    /\ UNCHANGED << node, disk, dirty, free, top, meta, cache_pointer, alive,
                    ref, snap, mode, unloading >>

NextSearch ==
    \/ \E p \in SearchPairs : \E l \in 0..node[0].count : \E r \in l..node[0].count :
          CallBinarySearch(p.key, p.val, l, r)
    \/ \E k \in 1..SearchKeys : \E l \in 0..node[0].count : \E r \in l..node[0].count :
          CallLowerBound(k, l, r)
    \/ PassBinarySearch
    \/ PassLowerBound

SpecSearch == InitSearch /\ [][NextSearch]_vars

(* ------------------------------- views --------------------------------- *)

\* Values of a return list, as a set.
SeqSet(q) == {q[i] : i \in 1..Len(q)}

\* Live slots of node i.
Slots(s, i) == 0..(s.node[i].count - 1)

\* Blocks of the subtree below the node that head refers to, that node
\* included.  fuel bounds the depth of the walk.
RECURSIVE Nodes(_, _, _)
Nodes(s, head, fuel) ==
    IF fuel = 0 THEN {}
    ELSE {head.index} \cup
         (IF head.inner
          THEN UNION {Nodes(s, s.node[head.index].data[x].head, fuel - 1) :
                         x \in Slots(s, head.index)}
          ELSE {})

\* Pairs stored in the leaves of that subtree.
RECURSIVE SubtreePairs(_, _, _)
SubtreePairs(s, head, fuel) ==
    IF fuel = 0 THEN {}
    ELSE IF head.inner
         THEN UNION {SubtreePairs(s, s.node[head.index].data[x].head, fuel - 1) :
                        x \in Slots(s, head.index)}
         ELSE {s.node[head.index].data[x].v : x \in Slots(s, head.index)}

RootHead(s) == HeadOf(s.node[0])

TreeNodes(s) == Nodes(s, RootHead(s), s.top)

StoredPairs(s) == SubtreePairs(s, RootHead(s), s.top)

\* The entries << i, x >> of the inner nodes of that subtree: each holds the
\* header of a child and the smallest pair below it.
RECURSIVE Entries(_, _, _)
Entries(s, head, fuel) ==
    IF fuel = 0 \/ ~head.inner THEN {}
    ELSE {<< head.index, x >> : x \in Slots(s, head.index)} \cup
         UNION {Entries(s, s.node[head.index].data[x].head, fuel - 1) :
                   x \in Slots(s, head.index)}

ChildRefs(s) == Entries(s, RootHead(s), s.top)

EntryAt(s, r) == s.node[r[1]].data[r[2]]

\* Levels of the tree: 0 when empty, 2 for a root over leaves.
RECURSIVE Depth(_, _, _)
Depth(s, head, fuel) ==
    IF fuel = 0 \/ ~head.inner THEN 1
    ELSE IF s.node[head.index].count = 0 THEN 0
    ELSE 1 + Depth(s, s.node[head.index].data[0].head, fuel - 1)

Height(s) == Depth(s, RootHead(s), s.top)

ValuesOf(S, k) == {p.val : p \in {q \in S : q.key = k}}

Ascending(q) ==
    \A i \in 1..(Len(q) - 1) : q[i] < q[i + 1]

(* ------------------------------- claims -------------------------------- *)

\* C1: after any sequence of inserts and erases, find(k, out) appends exactly
\* the values v with (k, v) in the reference set, for every key k.
C1_FindMatchesReference ==
    alive => \A k \in Keys : SeqSet(find(Store, k)) = ValuesOf(ref, k)

\* In a tree of height 3 a key is looked up whose NumVals values do not fit
\* in the leaf the scan starts in, so the scan follows next().
C1_Witness ==
    /\ alive
    /\ Height(Store) = 3
    /\ \E k \in Keys :
          /\ Len(find(Store, k)) = NumVals
          /\ find_leaf(Store, RootHead(Store), k).count < NumVals

\* C2: the values find(k, out) appends are strictly ascending, none twice.
C2_FindAscending ==
    alive => \A k \in Keys : Ascending(find(Store, k))

C2_Witness ==
    /\ alive
    /\ last.op = "erase"
    /\ \E k \in Keys : Len(find(Store, k)) >= BLOCK_SIZE + 1

\* C3: insert(k, v) of a stored pair changes no node, not the root, and
\* neither the allocated nor the free blocks.
C3_InsertExistingNoOp ==
    alive =>
      \A p \in StoredPairs(Store) :
         LET s == tree_insert(Store, p.key, p.val)
         IN  s.node = node /\ s.free = free /\ s.top = top

\* The driver has just inserted a pair that was stored, in a tree of leaves
\* under the root.
C3_Witness ==
    /\ alive
    /\ last.op = "insert" /\ last.found
    /\ node[0].count >= 2

\* C4: erase(k, v) of a pair that is not stored changes no node, not the
\* root, and neither the allocated nor the free blocks.
C4_EraseMissingNoOp ==
    alive =>
      \A p \in Pairs \ StoredPairs(Store) :
         LET s == tree_erase(Store, p.key, p.val)
         IN  s.node = node /\ s.free = free /\ s.top = top

\* The driver has just erased a pair that was not stored although other
\* values of its key are.
C4_Witness ==
    /\ alive
    /\ last.op = "erase" /\ ~last.found
    /\ node[0].count >= 2
    /\ \E k \in Keys :
          /\ ValuesOf(ref, k) # {}
          /\ ValuesOf(FreePairs, k) \ ValuesOf(ref, k) # {}

\* C5: for a pair that is not stored, insert followed by erase of it leaves
\* the stored pairs, and what find returns for every key, as before.
C5_InsertEraseInverse ==
    alive =>
      LET before == StoredPairs(Store)
          found  == [k \in Keys |-> find(Store, k)]
      IN  \A p \in Pairs \ before :
             LET s == tree_erase(tree_insert(Store, p.key, p.val), p.key, p.val)
             IN  /\ StoredPairs(s) = before
                 /\ [k \in Keys |-> find(s, k)] = found

\* A pair whose insert splits the root.
C5_Witness ==
    /\ alive
    /\ \E p \in Pairs \ StoredPairs(Store) :
          << "split_root" >> \in tree_insert(Store, p.key, p.val).ev

\* C6 as claimed: every non-root node has MERGE_SIZE <= count <= B.
C6_AllNonRootWithinBounds ==
    alive =>
      \A i \in TreeNodes(Store) \ {0} :
         MERGE_SIZE <= node[i].count /\ node[i].count <= BLOCK_SIZE

\* C6 as amended: every non-root node has count <= B, and has
\* MERGE_SIZE <= count unless it is the only child of the root, which holds
\* at least one pair.
C6_NonRootWithinBounds ==
    alive =>
      \A i \in TreeNodes(Store) \ {0} :
         /\ node[i].count <= BLOCK_SIZE
         /\ IF node[0].count = 1 THEN node[i].count >= 1
            ELSE MERGE_SIZE <= node[i].count

\* An erase has merged two children of the root's children and a leaf holds
\* the fewest pairs a node may hold.
C6_Witness ==
    /\ alive
    /\ last.op = "erase"
    /\ Height(Store) = 3
    /\ \E i \in TreeNodes(Store) \ {0} : node[i].count = MERGE_SIZE + 1
    /\ \E i \in TreeNodes(Store) \ {0} : node[i].count = BLOCK_SIZE

\* Smallest pair of a set of pairs.
IsMin(p, S) == p \in S /\ \A q \in S : q = p \/ PairLess(p, q)

\* C7: in every inner node, the root included, the pair of every occupied
\* entry is the smallest pair stored below the entry's child.
C7_EntryIsSubtreeMin ==
    alive =>
      \A r \in ChildRefs(Store) :
         IsMin(EntryAt(Store, r).v, SubtreePairs(Store, EntryAt(Store, r).head, top))

\* The root has just absorbed its two children after the smallest pair of
\* the tree was erased.
C7_Witness ==
    /\ alive
    /\ last.op = "erase" /\ last.found
    /\ << "merge_root" >> \in last.ev
    /\ mode = "asc_min"

\* Leaves of the tree, by the kind their parent's header records.
LeafNodes(s) == {EntryAt(s, r).head.index :
                   r \in {q \in ChildRefs(s) : ~EntryAt(s, q).head.inner}}

\* The leaf reached by always descending through entry 0.
RECURSIVE FirstLeaf(_, _, _)
FirstLeaf(s, head, fuel) ==
    IF fuel = 0 \/ ~head.inner THEN head.index
    ELSE FirstLeaf(s, s.node[head.index].data[0].head, fuel - 1)

\* The nodes met from i by following next(), at most fuel of them; the last
\* element is MAXN_SIZE when the chain ends within fuel nodes.
RECURSIVE Chain(_, _, _)
Chain(s, i, fuel) ==
    IF i = MAXN_SIZE \/ fuel = 0 \/ i \notin DOMAIN s.node THEN << i >>
    ELSE << i >> \o Chain(s, s.node[i].index, fuel - 1)

\* The pairs of the live slots of node i, in slot order.
NodePairs(s, i) == [x \in 1..s.node[i].count |-> s.node[i].data[x - 1].v]

RECURSIVE Concat(_, _, _)
Concat(s, c, n) ==
    IF n = 0 THEN << >> ELSE Concat(s, c, n - 1) \o NodePairs(s, c[n])

PairsAscending(q) == \A i \in 1..(Len(q) - 1) : PairLess(q[i], q[i + 1])

\* C8: on a non-empty tree the next() links from the first leaf visit every
\* leaf exactly once, in ascending pair order, and end in MAXN_SIZE.
C8_LeafChain ==
    (alive /\ ~empty(Store)) =>
      LET c == Chain(Store, FirstLeaf(Store, RootHead(Store), top), top)
          n == Len(c) - 1
      IN  /\ c[Len(c)] = MAXN_SIZE
          /\ {c[i] : i \in 1..n} = LeafNodes(Store)
          /\ Cardinality(LeafNodes(Store)) = n
          /\ PairsAscending(Concat(Store, c, n))

\* A leaf was split or two leaves were merged below a child of the root.
C8_Witness ==
    /\ alive
    /\ Height(Store) = 3
    /\ last.ev \cap {<< "split_node", "leaf" >>, << "merge_next", "leaf" >>,
                     << "merge_prev", "leaf" >>} # {}
    /\ Cardinality(LeafNodes(Store)) >= 7

\* How many child headers of the tree refer to block b.
RefCount(s, b) == Cardinality({r \in ChildRefs(s) : EntryAt(s, r).head.index = b})

FreeCount(s, b) == Cardinality({i \in 1..Len(s.free) : s.free[i] = b})

\* C9: every block handed out by allocate is either referred to by exactly
\* one child header or once on the free list, never both, and no child
\* header refers to block 0.
C9_BlockAccounting ==
    alive =>
      /\ \A b \in 1..(top - 1) :
            \/ RefCount(Store, b) = 1 /\ FreeCount(Store, b) = 0
            \/ RefCount(Store, b) = 0 /\ FreeCount(Store, b) = 1
      /\ \A r \in ChildRefs(Store) : EntryAt(Store, r).head.index # 0

\* The root has absorbed its two children, whose blocks are now free, while
\* other blocks are in use.
C9_Witness ==
    /\ alive
    /\ << "merge_root" >> \in last.ev
    /\ Len(free) >= 2
    /\ Cardinality(TreeNodes(Store)) >= 4

\* C10: after the tree is closed and reopened on the same files, find
\* returns for every key what it returned before the close.
C10_CloseReopenRoundTrip ==
    (alive /\ last.op = "reopen") =>
       \A k \in Keys : find(Store, k) = snap[k]

\* A tree of two leaves holding both keys has been closed and reopened.
C10_Witness ==
    /\ alive /\ last.op = "reopen"
    /\ node[0].count = 2
    /\ \A k \in {1, 2} : Len(snap[k]) >= 2

\* C11: whenever the reference set is empty the tree is empty, every block
\* ever allocated is on the free list, and an insert of any pair makes find
\* of its key return exactly its value.
C11_EmptyAgain ==
    (alive /\ ref = {}) =>
       /\ empty(Store)
       /\ \A b \in 1..(top - 1) : FreeCount(Store, b) = 1
       /\ \A p \in Pairs :
             find(tree_insert(Store, p.key, p.val), p.key) = << p.val >>

\* The last pair of a tree that had grown to several blocks has been erased.
C11_Witness ==
    /\ alive /\ ref = {}
    /\ last.op = "erase" /\ last.found
    /\ << "recycle_only_leaf" >> \in last.ev
    /\ Len(free) >= 3

\* C12: the iterator find(key) returns is at the first stored pair with that
\* key, and is the end iterator (index = -1) when no stored pair has it.
C12_IteratorAtFirstOrEnd ==
    alive =>
      \A k \in Keys :
         LET it   == find_iterator(Store, k)
             vals == ValuesOf(StoredPairs(Store), k)
         IN  IF vals # {}
             THEN /\ valid(it)
                  /\ deref(Store, it).key = k
                  /\ \A v \in vals : deref(Store, it).val <= v
             ELSE ~valid(it)

\* C13: in every inner node, the root included, the count in the header of
\* each occupied entry equals the count of the child node it refers to.
C13_HeadCountsMatch ==
    alive =>
      \A r \in ChildRefs(Store) :
         EntryAt(Store, r).head.count = node[EntryAt(Store, r).head.index].count

\* Inner nodes below the root have just been rebalanced.
C13_Witness ==
    /\ alive
    /\ Height(Store) = 3
    /\ \E e \in last.ev : Len(e) = 2 /\ e[2] = "inner"

\* Blocks that allocate has handed out and recycle has not taken back.
InUse(s) == (s.top - 1) - Len(s.free)

\* C14: when a public insert returns, the root holds at most BLOCK_SIZE
\* entries; if the recursion left it with BLOCK_SIZE + 1, two new inner nodes
\* hold its first floor((B+1)/2) and its other ceil((B+1)/2) entries in
\* order, and the root has two entries carrying the minima of those nodes.
C14_RootSplit ==
    alive =>
      \A p \in Pairs :
         LET r    == insert(Store, RootRef, p.key, p.val)
             s    == tree_insert(Store, p.key, p.val)
             old  == r.s.node[0]
             root == s.node[0]
             h0   == root.data[0].head
             h1   == root.data[1].head
             pc   == (BLOCK_SIZE + 1) \div 2
             nc   == (BLOCK_SIZE + 2) \div 2
         IN  /\ root.count <= BLOCK_SIZE
             /\ (~empty(Store) /\ r.ret /\ old.count > BLOCK_SIZE) =>
                   /\ old.count = BLOCK_SIZE + 1
                   /\ InUse(s) = InUse(r.s) + 2
                   /\ root.count = 2
                   /\ h0.index # h1.index
                   /\ {h0.index, h1.index} \cap (TreeNodes(r.s) \cup {0}) = {}
                   /\ h0.inner /\ h1.inner
                   /\ s.node[h0.index].inner /\ s.node[h1.index].inner
                   /\ h0.count = pc /\ s.node[h0.index].count = pc
                   /\ h1.count = nc /\ s.node[h1.index].count = nc
                   /\ \A i \in 0..(pc - 1) : s.node[h0.index].data[i] = old.data[i]
                   /\ \A i \in 0..(nc - 1) : s.node[h1.index].data[i] = old.data[pc + i]
                   /\ root.data[0].v = s.node[h0.index].data[0].v
                   /\ root.data[1].v = s.node[h1.index].data[0].v

\* The root is full and a pair is at hand whose insert leaves it one entry
\* too full.
C14_Witness ==
    /\ alive
    /\ node[0].count = BLOCK_SIZE
    /\ \E p \in Pairs :
          LET r == insert(Store, RootRef, p.key, p.val)
          IN  r.ret /\ r.s.node[0].count = BLOCK_SIZE + 1

\* The erase of pair p from a root with two inner children, as far as the
\* return from the child: the child x it descends into, the store r.s it
\* gets back, and whether that child is then too empty while its sibling
\* has nothing to spare.
RootErase(p) ==
    LET root  == node[0]
        x0    == binary_search(root.data, p.key, p.val, 0, root.count)
        x     == IF x0 > 0 THEN x0 - 1 ELSE IF x0 < 0 THEN Cpl(x0) ELSE 0
        r     == erase(Store, EntryRef(0, x), p.key, p.val)
        left  == root.data[0].head.index
        right == root.data[1].head.index
    IN  [left |-> left, right |-> right, r |-> r,
         contracts |->
            /\ root.count = 2 /\ root.data[0].head.inner
            /\ x0 # 0 /\ r.ret
            /\ r.s.node[IF x = 0 THEN left ELSE right].count <= MERGE_SIZE
            /\ r.s.node[IF x = 0 THEN right ELSE left].count < AMORT_SIZE]

\* C15: when an erase leaves an inner child of a root with two children too
\* empty and its sibling cannot spare entries, the root afterwards holds the
\* left child's entries followed by the right child's, both blocks are
\* free and the tree is one level lower.
C15_RootContraction ==
    alive =>
      \A p \in Pairs :
         (node[0].count = 2 /\ RootErase(p).contracts) =>
            LET e  == RootErase(p)
                l  == e.r.s.node[e.left]
                r  == e.r.s.node[e.right]
                s  == tree_erase(Store, p.key, p.val)
            IN  /\ s.node[0].count = l.count + r.count
                /\ s.node[0].count <= BLOCK_SIZE
                /\ \A i \in 0..(l.count - 1) : s.node[0].data[i] = l.data[i]
                /\ \A i \in 0..(r.count - 1) : s.node[0].data[l.count + i] = r.data[i]
                /\ {e.left, e.right} \subseteq FreeSet(s.free)
                /\ Height(s) = Height(Store) - 1

\* A pair is at hand whose erase makes the root absorb its two children.
C15_Witness ==
    /\ alive
    /\ node[0].count = 2
    /\ \E p \in Pairs : RootErase(p).contracts

\* C16 as claimed: whenever both siblings of a child are eligible with equal
\* counts, the right sibling is the one chosen, in insert-side and
\* erase-side amortization and in ordinary merge.
C16_TiesGoRight ==
    alive => \A e \in last.ev : (Len(e) = 3 /\ e[1] = "tie") => e[3] = "next"

\* C16: with both siblings eligible and their counts equal, insert-side
\* amortization and ordinary merge choose the left sibling (x - 1) and
\* erase-side amortization chooses the right sibling (x + 1).
C16_TieBreaks ==
    alive =>
      \A e \in last.ev :
         (Len(e) = 3 /\ e[1] = "tie") =>
            e[3] = (IF e[2] = "erase_amortize" THEN "next" ELSE "prev")

\* An insert has just amortized a child between two equally full siblings.
C16_Witness ==
    /\ alive
    /\ \E side \in {"prev", "next"} : << "tie", "insert_amortize", side >> \in last.ev

\* The levels of the insert of (key, val) below h at which the child came
\* back with more than BLOCK_SIZE entries: the parent, the child's position,
\* the store before the parent deals with it and the store after.
RECURSIVE InsertTrail(_, _, _, _)
InsertTrail(s, h, key, val) ==
    LET head == rdHead(s, h)
    IN  IF ~head.inner THEN {}
        ELSE
        LET pointer == get_pointer(head)
            x0      == binary_search(s.node[pointer].data, key, val, 0, head.count)
        IN  IF x0 < 0 THEN {}
            ELSE
            LET x  == IF x0 > 0 THEN x0 - 1 ELSE x0
                s1 == IF x0 > 0 THEN s
                      ELSE Put(modify(s, pointer), pointer,
                               [s.node[pointer] EXCEPT
                                  !.data = SetV(@, 0, [key |-> key, val |-> val])])
                r  == insert(s1, EntryRef(pointer, x), key, val)
            IN  InsertTrail(s1, EntryRef(pointer, x), key, val) \cup
                (IF r.ret /\ r.s.node[r.s.cp].count > BLOCK_SIZE
                 THEN {[pointer |-> pointer, x |-> x, before |-> r.s,
                        after |-> insert_adjust(r, h, pointer, x).s]}
                 ELSE {})

\* Positions of the immediate siblings of child x under par.
Siblings(par, x) == {y \in {x - 1, x + 1} : 0 <= y /\ y < par.count}

\* Count of the node that entry y of par refers to.
ChildCount(s, par, y) == s.node[get_pointer(par.data[y].head)].count

\* Siblings of the overflowing child of trail element t that can take
\* entries.
InsertQual(t) ==
    LET par == t.before.node[t.pointer]
    IN  {y \in Siblings(par, t.x) : ChildCount(t.before, par, y) < AMORT_SIZE}

\* C17: when a child comes back from an insert with BLOCK_SIZE + 1 entries,
\* a block is allocated only if no immediate sibling has fewer than
\* AMORT_SIZE entries; otherwise floor((over - under) / 2) entries move to a
\* qualifying sibling of lowest count, no block is allocated, the parent
\* keeps its count and both nodes end with at most BLOCK_SIZE entries.
C17_InsertAmortizeOrSplit ==
    (alive /\ ~empty(Store)) =>
      \A p \in Pairs :
        \A t \in InsertTrail(Store, RootRef, p.key, p.val) :
           LET b    == t.before
               a    == t.after
               par  == b.node[t.pointer]
               c    == b.cp
               over == b.node[c].count
               qual == InsertQual(t)
           IN  /\ c = get_pointer(par.data[t.x].head)
               /\ over = BLOCK_SIZE + 1
               /\ InUse(a) > InUse(b) => qual = {}
               /\ qual # {} =>
                    \E y \in qual :
                       LET sib   == get_pointer(par.data[y].head)
                           under == b.node[sib].count
                           delta == (over - under) \div 2
                           an    == a.node[sib]
                           ac    == a.node[c]
                       IN  /\ \A z \in qual : under <= ChildCount(b, par, z)
                           /\ an.count = under + delta
                           /\ ac.count = over - delta
                           /\ an.count <= BLOCK_SIZE /\ ac.count <= BLOCK_SIZE
                           /\ InUse(a) = InUse(b) /\ a.top = b.top
                           /\ a.node[t.pointer].count = par.count
                           /\ IF y < t.x
                              THEN /\ \A i \in 0..(under - 1) :
                                         an.data[i] = b.node[sib].data[i]
                                   /\ \A i \in 0..(delta - 1) :
                                         an.data[under + i] = b.node[c].data[i]
                                   /\ \A i \in 0..(ac.count - 1) :
                                         ac.data[i] = b.node[c].data[delta + i]
                              ELSE /\ \A i \in 0..(ac.count - 1) :
                                         ac.data[i] = b.node[c].data[i]
                                   /\ \A i \in 0..(delta - 1) :
                                         an.data[i] = b.node[c].data[ac.count + i]
                                   /\ \A i \in 0..(under - 1) :
                                         an.data[delta + i] = b.node[sib].data[i]

\* A pair is at hand whose insert overfills a child between two siblings
\* that both have room, the right one holding fewer entries than the left.
C17_Witness ==
    /\ alive /\ ~empty(Store)
    /\ \E p \in Pairs :
          \E t \in InsertTrail(Store, RootRef, p.key, p.val) :
             LET par == t.before.node[t.pointer]
             IN  /\ InsertQual(t) = {t.x - 1, t.x + 1}
                 /\ ChildCount(t.before, par, t.x + 1) <
                       ChildCount(t.before, par, t.x - 1)

\* The levels of the erase of (key, val) below h at which the child came
\* back with at most MERGE_SIZE entries: the parent, the child's position,
\* the store before the parent deals with it and the store after.
RECURSIVE EraseTrail(_, _, _, _)
EraseTrail(s, h, key, val) ==
    LET head == rdHead(s, h)
    IN  IF ~head.inner THEN {}
        ELSE
        LET pointer == get_pointer(head)
            x0      == binary_search(s.node[pointer].data, key, val, 0, head.count)
        IN  IF x0 = 0 THEN {}
            ELSE
            LET x    == IF x0 > 0 THEN x0 - 1 ELSE Cpl(x0)
                flag == x0 < 0
                r    == erase(s, EntryRef(pointer, x), key, val)
                s1   == modify(r.s, pointer)
                s2   == IF flag
                        THEN Put(s1, pointer,
                                 [s1.node[pointer] EXCEPT
                                    !.data = SetV(@, x, s1.node[s1.cp].data[0].v)])
                        ELSE s1
            IN  EraseTrail(s, EntryRef(pointer, x), key, val) \cup
                (IF r.ret /\ s2.node[s2.cp].count <= MERGE_SIZE
                 THEN {[pointer |-> pointer, x |-> x, before |-> s2,
                        after |-> erase_adjust(r, h, pointer, x, flag).s]}
                 ELSE {})

\* Siblings of the underfull child of trail element t that can spare
\* entries.
EraseQual(t) ==
    LET par == t.before.node[t.pointer]
    IN  {y \in Siblings(par, t.x) : ChildCount(t.before, par, y) >= AMORT_SIZE}

\* The parent of trail element t takes one of the two branches of
\* erase_merge that only the root takes.
RootOnly(t) ==
    LET par == t.before.node[t.pointer]
    IN  par.count = 1 \/ (par.count = 2 /\ t.before.node[t.before.cp].inner)

\* C18: when a child with a sibling comes back from an erase with at most
\* MERGE_SIZE entries, a block is recycled only if no immediate sibling has
\* AMORT_SIZE entries or more; an ordinary merge is with an immediate sibling
\* of smallest count, the left node of the two keeps the entries of both in
\* order with at most BLOCK_SIZE of them, the right node is recycled and the
\* parent loses exactly the right node's entry.
C18_EraseAmortizeOrMerge ==
    (alive /\ ~empty(Store)) =>
      \A p \in Pairs :
        \A t \in EraseTrail(Store, RootRef, p.key, p.val) :
           LET b    == t.before
               a    == t.after
               par  == b.node[t.pointer]
               c    == b.cp
               sibs == Siblings(par, t.x)
               qual == EraseQual(t)
           IN  par.count >= 2 =>
               /\ c = get_pointer(par.data[t.x].head)
               /\ InUse(a) < InUse(b) => qual = {}
               /\ (qual = {} /\ ~RootOnly(t)) =>
                    \E y \in sibs :
                       LET lo   == IF y < t.x THEN y ELSE t.x
                           hi   == lo + 1
                           keep == get_pointer(par.data[lo].head)
                           gone == get_pointer(par.data[hi].head)
                           kc   == b.node[keep].count
                           gc   == b.node[gone].count
                           kn   == a.node[keep]
                           ap   == a.node[t.pointer]
                       IN  /\ \A z \in sibs :
                                 ChildCount(b, par, y) <= ChildCount(b, par, z)
                           /\ kn.count = kc + gc
                           /\ kn.count <= BLOCK_SIZE
                           /\ \A i \in 0..(kc - 1) : kn.data[i] = b.node[keep].data[i]
                           /\ \A i \in 0..(gc - 1) :
                                 kn.data[kc + i] = b.node[gone].data[i]
                           /\ gone \in FreeSet(a.free)
                           /\ InUse(a) = InUse(b) - 1
                           /\ ap.count = par.count - 1
                           /\ \A i \in 0..(lo - 1) : ap.data[i] = par.data[i]
                           /\ ap.data[lo].v = par.data[lo].v
                           /\ ap.data[lo].head = MkHead(keep, kn.inner, kn.count)
                           /\ \A i \in hi..(ap.count - 1) : ap.data[i] = par.data[i + 1]

\* A pair is at hand whose erase empties a child between two siblings
\* that have nothing to spare, the right one holding fewer entries than the
\* left.
C18_Witness ==
    /\ alive /\ ~empty(Store)
    /\ \E p \in Pairs :
          \E t \in EraseTrail(Store, RootRef, p.key, p.val) :
             LET par == t.before.node[t.pointer]
             IN  /\ EraseQual(t) = {} /\ ~RootOnly(t)
                 /\ Siblings(par, t.x) = {t.x - 1, t.x + 1}
                 /\ ChildCount(t.before, par, t.x + 1) <
                       ChildCount(t.before, par, t.x - 1)

\* C19: in no step of an insert or erase does a node hold more than
\* BLOCK_SIZE + 1 entries, and no entry slot beyond data[BLOCK_SIZE] is
\* written.
C19_SlackNeverOverrun ==
    alive => (<< "overfull" >> \notin last.ev /\ << "overrun" >> \notin last.ev)

\* The operation just performed had a node with BLOCK_SIZE + 1 entries on
\* its way.
C19_Witness ==
    /\ alive
    /\ << "slack" >> \in last.ev

\* C20: no inner node other than the root has one entry, or two entries one
\* of which refers to an inner node with MERGE_SIZE entries or fewer; and
\* whenever an erase gets to erase_merge with a parent of one entry, or of
\* two entries and an inner child, that parent is the root.
C20_RootOnlyBranches ==
    alive =>
      /\ \A i \in TreeNodes(Store) \ {0} :
            node[i].inner =>
               /\ node[i].count # 1
               /\ node[i].count = 2 =>
                     \A x \in {0, 1} :
                        node[i].data[x].head.inner =>
                           ChildCount(Store, node[i], x) > MERGE_SIZE
      /\ \A p \in ref :
            \A t \in EraseTrail(Store, RootRef, p.key, p.val) :
               (RootOnly(t) /\ EraseQual(t) = {}) => t.pointer = 0

\* The tree has four levels and a stored pair is at hand whose erase merges
\* two inner nodes under a parent that is not the root.
C20_Witness ==
    /\ alive
    /\ Height(Store) >= 4
    /\ \E p \in ref :
          \E t \in EraseTrail(Store, RootRef, p.key, p.val) :
             /\ t.pointer # 0
             /\ t.before.node[t.before.cp].inner
             /\ EraseQual(t) = {}

(* ---------------------------------- C21 -------------------------------- *)

Searching == last.op \in {"binary_search", "lower_bound"}

\* What binary_search has returned is what it is to return on an ascending
\* range, and what lower_bound has returned likewise; the recursive
\* operators the tree is modelled with return the same.
SearchResults ==
    (Searching /\ last.done) =>
      LET data == node[0].data
          p    == [key |-> last.key, val |-> last.val]
          hits == {m \in last.from..(last.to - 1) : data[m].v = p}
          gaps == {i \in last.from..last.to :
                     /\ i > last.from => PairLess(data[i - 1].v, p)
                     /\ i < last.to => PairLess(p, data[i].v)}
          lows == {i \in last.from..last.to :
                     i = last.to \/ data[i].v.key >= last.key}
      IN  IF last.op = "binary_search"
          THEN /\ IF hits # {} THEN hits = {Cpl(last.ret)} ELSE gaps = {last.ret}
               /\ last.ret = binary_search(data, last.key, last.val, last.from, last.to)
          ELSE /\ last.ret \in lows
               /\ \A i \in lows : last.ret <= i
               /\ last.ret = lower_bound(data, 0, last.key, last.from, last.to)

\* The loop variables stay in the range given, and every pass that does not
\* leave the loop narrows [l, r).
SearchProgress ==
    (Searching /\ Searching') =>
       /\ last.from <= last'.l /\ last'.l <= last'.r /\ last'.r <= last.to
       /\ ~last'.done => last'.r - last'.l < last.r - last.l

\* C21: on a strictly ascending range [l, r), binary_search returns ~m when
\* the pair is stored at m and otherwise the one i in [l, r] with
\* entry[i-1] < (key, val) < entry[i]; lower_bound returns the first position
\* in [l, r] whose key is >= key (r if there is none); each pass of either
\* loop narrows the range, so both return for every l <= r.
C21_Searches == []SearchResults /\ [][SearchProgress]_vars

\* binary_search has found the pair in the upper part of a range that does
\* not start at 0, after an entry of the same key at which lower_bound
\* stops.
C21_Witness ==
    /\ last.op = "binary_search" /\ last.done
    /\ last.from > 0 /\ last.to - last.from >= 3
    /\ last.ret < 0 /\ Cpl(last.ret) > last.from + 1
    /\ lower_bound(node[0].data, 0, last.key, last.from, last.to) = Cpl(last.ret) - 1

(* ---------------------------------- C22 -------------------------------- *)

\* The subtree below head with the block indices left out: kind and count
\* of the node and, for each entry, its pair, the kind and count its header
\* gives, and the subtree it refers to.
RECURSIVE Shape(_, _, _)
Shape(s, head, fuel) ==
    LET n == s.node[head.index]
    IN  [inner |-> n.inner, count |-> n.count,
         data  |-> [x \in 0..(n.count - 1) |->
                      IF n.inner /\ fuel > 0
                      THEN [v     |-> n.data[x].v,
                            inner |-> n.data[x].head.inner,
                            count |-> n.data[x].head.count,
                            child |-> Shape(s, n.data[x].head, fuel - 1)]
                      ELSE [v |-> n.data[x].v]]]

TreeShape(s) == Shape(s, RootHead(s), s.top)

\* The insert that left the events ev moved entries between nodes.
Rebalanced(ev) ==
    \E e \in ev : e[1] \in {"split_root", "split_node",
                            "insert_amortize_prev", "insert_amortize_next"}

\* C22 as claimed: insert then erase of a pair not stored restores the
\* shape of the tree and the entries and counts of every node.
C22_StructureRestored ==
    alive =>
      \A p \in Pairs \ StoredPairs(Store) :
         TreeShape(tree_erase(tree_insert(Store, p.key, p.val), p.key, p.val))
            = TreeShape(Store)

\* C22: insert then erase of a pair not stored restores the stored pairs,
\* and restores the shape of the tree and the entries and counts of every
\* node if the insert neither amortized nor split.
C22_RestoredUnlessRebalanced ==
    alive =>
      \A p \in Pairs \ StoredPairs(Store) :
         LET s1 == tree_insert(Store, p.key, p.val)
             s2 == tree_erase(s1, p.key, p.val)
         IN  /\ StoredPairs(s2) = StoredPairs(Store)
             /\ ~Rebalanced(s1.ev) => TreeShape(s2) = TreeShape(Store)

\* Over several leaves, one pair at hand becomes the smallest of the tree
\* and is undone exactly, and another makes its leaf amortize or split and
\* leaves the entries spread otherwise.
C22_Witness ==
    /\ alive /\ Height(Store) >= 2 /\ node[0].count >= 3
    /\ \E p \in Pairs \ StoredPairs(Store) :
          LET s1 == tree_insert(Store, p.key, p.val)
          IN  /\ ~Rebalanced(s1.ev)
              /\ s1.node[0].data[0].v = p
              /\ TreeShape(tree_erase(s1, p.key, p.val)) = TreeShape(Store)
    /\ \E p \in Pairs \ StoredPairs(Store) :
          LET s1 == tree_insert(Store, p.key, p.val)
          IN  /\ Rebalanced(s1.ev)
              /\ TreeShape(tree_erase(s1, p.key, p.val)) # TreeShape(Store)

(* ---------------------------------- C23 -------------------------------- *)

\* The cached nodes among the blocks S that visitors refer to: the root is
\* held in __root_pair, outside the cache.
Pinned(S) == S \ {0, NoVisitor}

\* A helper that holds a visitor on every block of the file.
HelperVisitors_whole_file(b, a) == DOMAIN a.node

\* The nodes a rebalancing helper that took the store from b to a held
\* visitors on: those it wrote, allocated or recycled.
HelperVisitors(b, a) ==
    {i \in DOMAIN a.node :
        \/ i \notin DOMAIN b.node
        \/ a.node[i] # b.node[i]
        \/ (i \in FreeSet(a.free)) # (i \in FreeSet(b.free))}

\* The sets of nodes referred to by live visitors in the course of the
\* insert of (key, val) below h, while the callers hold visitors on held:
\* on entry, within the call for the child, and while the child is dealt
\* with after its return.
RECURSIVE InsertPins(_, _, _, _, _)
InsertPins(s, h, key, val, held) ==
    LET head    == rdHead(s, h)
        pointer == get_pointer(head)
    IN  IF ~head.inner THEN {Pinned(held \cup {pointer, s.cp})}
        ELSE
        LET x0 == binary_search(s.node[pointer].data, key, val, 0, head.count)
        IN  IF x0 < 0 THEN {Pinned(held \cup {pointer, s.cp})}
            ELSE
            LET x  == IF x0 > 0 THEN x0 - 1 ELSE x0
                s1 == IF x0 > 0 THEN s
                      ELSE LET m == modify(s, pointer)
                           IN  Put(m, pointer,
                                   [m.node[pointer] EXCEPT
                                      !.data = SetV(@, 0, [key |-> key, val |-> val])])
                r  == insert(s1, EntryRef(pointer, x), key, val)
            IN  {Pinned(held \cup {pointer, s.cp})} \cup
                InsertPins(s1, EntryRef(pointer, x), key, val, held \cup {pointer}) \cup
                {Pinned(held \cup {pointer, r.s.cp} \cup
                        HelperVisitors(r.s, insert_adjust(r, h, pointer, x).s))}

\* The same for the public insert, with insert_root and split_root.
InsertMoments(s, key, val) ==
    IF empty(s)
    THEN {Pinned({s.cp} \cup HelperVisitors(s, insert_root(s, key, val)))}
    ELSE LET r == insert(s, RootRef, key, val)
         IN  InsertPins(s, RootRef, key, val, {}) \cup
             {Pinned({r.s.cp} \cup HelperVisitors(r.s, root_adjust(r)))}

\* The same for the erase of (key, val) below h.
RECURSIVE ErasePins(_, _, _, _, _)
ErasePins(s, h, key, val, held) ==
    LET head    == rdHead(s, h)
        pointer == get_pointer(head)
    IN  IF ~head.inner THEN {Pinned(held \cup {pointer, s.cp})}
        ELSE
        LET x0 == binary_search(s.node[pointer].data, key, val, 0, head.count)
        IN  IF x0 = 0 THEN {Pinned(held \cup {pointer, s.cp})}
            ELSE
            LET x    == IF x0 > 0 THEN x0 - 1 ELSE Cpl(x0)
                flag == x0 < 0
                r    == erase(s, EntryRef(pointer, x), key, val)
            IN  {Pinned(held \cup {pointer, s.cp})} \cup
                ErasePins(s, EntryRef(pointer, x), key, val, held \cup {pointer}) \cup
                {Pinned(held \cup {pointer, r.s.cp} \cup
                        HelperVisitors(r.s, erase_adjust(r, h, pointer, x, flag).s))}

EraseMoments(s, key, val) ==
    IF empty(s) THEN {} ELSE ErasePins(s, RootRef, key, val, {})

\* The same for the descent of find: one visitor per round of the loop.
RECURSIVE FindLeafPins(_, _, _)
FindLeafPins(s, head, key) ==
    IF head.inner
    THEN LET pointer == get_pointer(head)
             x == lower_bound(s.node[pointer].data, 1, key, 0, head.count - 1)
         IN  {Pinned({pointer, s.cp})} \cup
             FindLeafPins(s, s.node[pointer].data[x].head, key)
    ELSE {Pinned({get_pointer(head), s.cp})}

\* The same for the scan of find: pointer = get_pointer(*pointer) opens the
\* visitor on the next leaf while the one on this leaf is live.
RECURSIVE FindScanPins(_, _, _, _, _)
FindScanPins(s, pointer, x, cnt, key) ==
    LET n == s.node[pointer]
    IN  IF x # cnt
        THEN IF k_comp(key, n.data[x].v.key) # 0 THEN {}
             ELSE FindScanPins(s, pointer, x + 1, cnt, key)
        ELSE IF n.index # MAXN_SIZE
             THEN {Pinned({pointer, n.index, s.cp})} \cup
                  FindScanPins(s, n.index, 0, s.node[n.index].count, key)
             ELSE {}

FindMoments(s, key) ==
    IF empty(s) THEN {}
    ELSE LET head    == find_leaf(s, HeadOf(s.node[0]), key)
             pointer == get_pointer(head)
             x == lower_bound(s.node[pointer].data, 0, key, 0, head.count)
         IN  FindLeafPins(s, HeadOf(s.node[0]), key) \cup
             FindScanPins(s, pointer, x, head.count, key)

\* Levels of nodes of the tree, the root counted: an empty tree has its
\* root.
Levels(s) == IF empty(s) THEN 1 ELSE Height(s)

\* The lower of the tree's heights before and after an operation.
LowLevels(b, a) == IF Levels(a) < Levels(b) THEN Levels(a) ELSE Levels(b)

\* The pairs the driver may pass next.
NextInputs == InsertInputs \cup EraseInputs

Reopened ==
    [node |-> file_close(tree_dtor(disk)), dirty |-> {}, free |-> free,
     top |-> top, cp |-> NoVisitor, ev |-> {}]

\* The blocks in use after an operation took the store from b to a whose
\* node is new or not as it was.
Changed(b, a) ==
    {i \in DOMAIN a.node \ FreeSet(a.free) :
        i \notin DOMAIN b.node \/ i \in FreeSet(b.free) \/ a.node[i] # b.node[i]}

\* The operation that took the store from b to a left every node it
\* changed dirty.
ChangedIsDirty(b, a) == Changed(b, a) \subseteq a.dirty

\* Both operations do so from store b, whatever the pair.
MarksChanges(b) ==
    \A p \in Pairs :
       /\ ChangedIsDirty(b, tree_insert(b, p.key, p.val))
       /\ ChangedIsDirty(b, tree_erase(b, p.key, p.val))

\* C24: every node, the root included, that a public insert or erase leaves
\* with other entries, count, child headers or next-leaf link than it had,
\* and every node it allocates, is marked dirty when the operation returns.
C24_ChangedIsDirty == alive => MarksChanges(Reopened)

\* From a tree of three levels just reopened, one insert splits an inner
\* node and changes the root with it, and one erase merges two nodes into
\* one that was clean.
C24_Witness ==
    /\ alive /\ Height(Store) >= 3
    /\ \E p \in Pairs :
          /\ Kind("split_node", TRUE) \in tree_insert(Reopened, p.key, p.val).ev
          /\ 0 \in Changed(Reopened, tree_insert(Reopened, p.key, p.val))
    /\ \E p \in Pairs :
          /\ tree_erase(Reopened, p.key, p.val).ev \cap
                {Kind("merge_prev", FALSE), Kind("merge_next", FALSE)} # {}
          /\ Cardinality(Changed(Reopened, tree_erase(Reopened, p.key, p.val))) >= 3

(* ---------------------------------- C25 -------------------------------- *)

\* Depths below the node of header head, itself at depth d, at which the
\* headers followed say leaf.
RECURSIVE LeafDepths(_, _, _, _)
LeafDepths(s, head, d, fuel) ==
    IF fuel = 0 THEN {}
    ELSE IF ~head.inner THEN {d}
    ELSE UNION {LeafDepths(s, s.node[head.index].data[x].head, d + 1, fuel - 1) :
                   x \in Slots(s, head.index)}

\* The nodes of the tree that headers say are inner, the root among them.
InnerNodes(s) == {r[1] : r \in ChildRefs(s)}

\* C25: when a public insert or erase has returned, all leaves are at the
\* same depth below the root, the children of any one inner node are all
\* leaves or all inner nodes, the kind in each child header is the kind the
\* child node has itself, and a root with a single child has a leaf there.
C25_LevelsUniform ==
    alive =>
      /\ Cardinality(LeafDepths(Store, RootHead(Store), 0, top)) <= 1
      /\ \A i \in InnerNodes(Store) :
            \A x, y \in Slots(Store, i) :
               node[i].data[x].head.inner = node[i].data[y].head.inner
      /\ \A r \in ChildRefs(Store) :
            EntryAt(Store, r).head.inner = node[EntryAt(Store, r).head.index].inner
      /\ node[0].inner
      /\ node[0].count = 1 => ~node[0].data[0].head.inner

\* An erase has merged the two inner children of the root into it, over a
\* tree that still has inner nodes below the root.
C25_Witness ==
    /\ alive
    /\ last.op = "erase"
    /\ << "merge_root" >> \in last.ev
    /\ Height(Store) >= 3

====
